---- MODULE Spec2Model ----
(***************************************************************************)
(* Participant conversation engine of the deliberation service.            *)
(*                                                                         *)
(* The model follows the request handler user_conversation (core/views.py) *)
(* and the service it drives, UserConversationService                      *)
(* (core/services/conversation_service.py), over one persisted             *)
(* UserConversation row of one DiscussionSession.  Requests are handled    *)
(* one at a time; every action is one whole request.  Two further          *)
(* behaviours follow it: SpecBudget, the token-budget guard of the request *)
(* list (conversation_service.py 262-269), and SpecDebate, the debate      *)
(* orchestrator AIDeliberationService.run_deliberation                     *)
(* (core/services/ai_deliberation_service.py), one step per agent turn.    *)
(*                                                                         *)
(* Strings are modelled as follows: a multi-paragraph text (scratchpad,    *)
(* assistant reply, history content) is the sequence of its non-blank      *)
(* paragraphs, so "" is << >> and joining with a blank line is             *)
(* concatenation.  A question is identified by its text "q1", "q2", ...    *)
(***************************************************************************)
EXTENDS Integers, Sequences, FiniteSets, TLC

(* ----------------------------- bounds ---------------------------------- *)
MaxPlan == 2
MaxLimit == 2

(* ------------------------- input alphabets ----------------------------- *)
QuestionTypes == {"discussion", "grading"}
QText == <<"q1", "q2", "q3", "q4", "q5", "q6">>
MessageInputs == {"", "m"}
ScoreInputs == {"abc", "0", "7", "11"}
ReasonInputs == {"", " ", "because"}
NoteOutputs == {"", " ", "note"}
ReplyOutputs == {"reply"}
FinalOutputs == {"", "doc"}
CompletionOutcomes == {"ok", "malformed", "error"}

VARIABLES
    objective_questions,        \* DiscussionSession.objective_questions
    question_followup_limit,    \* DiscussionSession.question_followup_limit
    no_new_information_limit,   \* DiscussionSession.no_new_information_limit
    topic,                      \* DiscussionSession.topic
    discussion_sessions,        \* the DiscussionSession rows, last operation
    conversation,               \* the persisted UserConversation row
    last,                       \* what the last request did and returned
    messages,                   \* process_user_message: the request list built
    sent,                       \* process_user_message: the list handed over
    questions,                  \* AIDeliberationSession.get_question_sequence()
    personas,                   \* AIDeliberationSession.get_personas()
    run,                        \* the persisted AIDebateRun row
    deliberation,               \* run_deliberation: position and locals
    requests,                   \* completion requests issued by the debate
    debate_summary,             \* the AIDebateSummary row and summarize requests
    inflight                    \* overlapping send requests: what each loaded

vars == <<objective_questions, question_followup_limit,
          no_new_information_limit, topic, discussion_sessions,
          conversation, last,
          messages, sent, questions, personas, run, deliberation, requests,
          debate_summary, inflight>>

session_vars == <<objective_questions, question_followup_limit,
                  no_new_information_limit, topic, discussion_sessions>>

conversation_vars == <<session_vars, conversation, last>>

budget_vars == <<messages, sent>>

debate_vars == <<questions, personas, run, deliberation, requests,
                 debate_summary>>

overlap_vars == <<inflight>>

Max(a, b) == IF a >= b THEN a ELSE b
Min(a, b) == IF a <= b THEN a ELSE b

(* str.strip() on the one-paragraph inputs of the alphabets above *)
strip(s) == IF s = " " THEN "" ELSE s

(* a one-paragraph text as a sequence of non-blank paragraphs *)
Text(s) == IF strip(s) = "" THEN << >> ELSE <<strip(s)>>

(* ------------------------ DiscussionSession ---------------------------- *)
get_all_questions == objective_questions

total_questions == Len(get_all_questions)

get_question_at(index) ==
    IF 0 <= index /\ index < total_questions
    THEN get_all_questions[index + 1]
    ELSE [text |-> "", type |-> "none"]

(* max(1, limit or 1) *)
followup_limit ==
    Max(1, IF question_followup_limit = 0 THEN 1 ELSE question_followup_limit)

no_new_limit ==
    Max(1, IF no_new_information_limit = 0 THEN 1 ELSE no_new_information_limit)

(* ------------------------- UserConversation ---------------------------- *)
NewConversation ==
    [ current_question_index |-> 0,
      question_followups     |-> 0,
      consecutive_no_new     |-> 0,
      active                 |-> TRUE,
      history                |-> << >>,
      responses              |-> << >>,
      scratchpad             |-> << >>,
      views_markdown         |-> "",
      message_count          |-> 0 ]

append_message(c, role, content) ==
    [c EXCEPT !.history = Append(@, [role |-> role, content |-> content])]

NoScore == 0
NoReason == ""

RECURSIVE FirstResponseAt(_, _, _)
FirstResponseAt(responses, question_index, k) ==
    IF k > Len(responses) THEN 0
    ELSE IF responses[k].question_index = question_index THEN k
    ELSE FirstResponseAt(responses, question_index, k + 1)

(* Variant: the reason of the response is not stored *)
set_response_for_question_DropsReason(c, question_index, question_text, question_type, score, reason, has_history, discussion_history) ==
    [c EXCEPT !.responses =
        Append(@, [ question_index     |-> question_index,
                    question_text      |-> question_text,
                    question_type      |-> question_type,
                    score              |-> score,
                    reason             |-> NoReason,
                    discussion_history |-> << >> ])]

set_response_for_question(c, question_index, question_text, question_type, score, reason, has_history, discussion_history) ==
    LET k == FirstResponseAt(c.responses, question_index, 1)
        updated ==
          [c.responses[k] EXCEPT
             !.question_text = question_text,
             !.question_type = question_type,
             !.score = IF score # NoScore THEN score ELSE @,
             !.reason = IF reason # NoReason THEN reason ELSE @,
             !.discussion_history =
                 IF has_history THEN discussion_history ELSE @]
        fresh ==
          [ question_index     |-> question_index,
            question_text      |-> question_text,
            question_type      |-> question_type,
            score              |-> score,
            reason             |-> reason,
            discussion_history |->
                IF has_history THEN discussion_history ELSE << >> ]
    IN [c EXCEPT !.responses =
            IF k > 0 THEN [@ EXCEPT ![k] = updated] ELSE Append(@, fresh)]

(* ---------------------- UserConversationService ------------------------ *)
(* What the external services answer during one request.                   *)
Gateway ==
    [ rag_ok          : BOOLEAN,
      completion      : CompletionOutcomes,
      new_information : BOOLEAN,
      temp_md_entry   : NoteOutputs,
      assistant_reply : ReplyOutputs,
      final_ok        : BOOLEAN,
      final_content   : FinalOutputs ]

_append_scratchpad(c, content) ==
    IF strip(content) = "" THEN c
    ELSE [c EXCEPT !.scratchpad = @ \o <<strip(content)>>]

(* Variant: the completion call is issued for a blank scratchpad as well *)
_finalize_views_document_AlwaysCalls(temp_markdown, gw) ==
    IF ~gw.final_ok
    THEN [raised |-> TRUE, value |-> "", calls |-> 1]
    ELSE [raised |-> FALSE, value |-> strip(gw.final_content), calls |-> 1]

_finalize_views_document(temp_markdown, gw) ==
    IF temp_markdown = << >>
    THEN [raised |-> FALSE, value |-> "", calls |-> 0]
    ELSE IF ~gw.final_ok
    THEN [raised |-> TRUE, value |-> "", calls |-> 1]
    ELSE [raised |-> FALSE, value |-> strip(gw.final_content), calls |-> 1]

_finalize_from_temp(mem, gw) ==
    LET f == _finalize_views_document(mem.scratchpad, gw)
    IN [ raised |-> f.raised,
         value  |-> f.value,
         calls  |-> f.calls,
         mem    |-> IF f.raised THEN mem
                    ELSE [mem EXCEPT !.views_markdown = f.value] ]

(* Variant: a stop generates the document again although one is stored *)
stop_conversation_AlwaysFinalizes(db, mem, gw) ==
    LET mem1 == [mem EXCEPT !.active = FALSE]
        db1 == IF mem.active THEN [db EXCEPT !.active = FALSE] ELSE db
        f == _finalize_from_temp(mem1, gw)
    IN [ raised |-> f.raised,
         calls  |-> f.calls,
         value  |-> IF f.raised THEN "" ELSE f.value,
         mem    |-> f.mem,
         db     |-> IF f.raised THEN db1
                    ELSE [db1 EXCEPT !.views_markdown = f.value] ]

stop_conversation(db, mem, gw) ==
    LET mem1 == [mem EXCEPT !.active = FALSE]
        db1 == IF mem.active THEN [db EXCEPT !.active = FALSE] ELSE db
        cached == mem1.views_markdown # ""
        f == _finalize_from_temp(mem1, gw)
        final_views == IF cached THEN mem1.views_markdown ELSE f.value
        raised == ~cached /\ f.raised
        mem2 == [mem1 EXCEPT !.views_markdown = final_views]
    IN [ raised |-> raised,
         calls  |-> IF cached THEN 0 ELSE f.calls,
         value  |-> IF raised THEN "" ELSE final_views,
         mem    |-> IF raised THEN mem1 ELSE mem2,
         db     |-> IF raised THEN db1
                    ELSE [db1 EXCEPT !.views_markdown = final_views] ]

(* First discussion question after position index, "" when there is none   *)
RECURSIVE next_discussion_text(_)
next_discussion_text(index) ==
    IF index + 1 >= total_questions THEN ""
    ELSE IF get_all_questions[index + 2].type = "discussion"
         THEN get_all_questions[index + 2].text
         ELSE next_discussion_text(index + 1)

TransitionNote(next_question_text) ==
    <<"Let's move on to the next question:", next_question_text>>

ClosingNote ==
    <<"I'll summarise your perspective and wrap up our discussion here.">>

NoTurn ==
    [ new_information          |-> FALSE,
      assistant_reply          |-> << >>,
      ended                    |-> FALSE,
      end_reason               |-> "",
      final_views_md           |-> "",
      streak_value             |-> 0,
      responses_for_question   |-> 0,
      no_new_trigger           |-> FALSE,
      reached_limit            |-> FALSE,
      advance_to_next_question |-> FALSE,
      close_conversation       |-> FALSE ]

(* Variant: the streak is never reset by a novel reply *)
updated_streak_NeverResets(consecutive_no_new, new_information) ==
    consecutive_no_new + 1

(* conversation_service.py 295-299 *)
updated_streak(consecutive_no_new, new_information) ==
    IF new_information THEN 0 ELSE consecutive_no_new + 1

(* Variant: the streak has to pass the limit before it triggers *)
no_new_triggered_OffByOne(current_question, streak_value) ==
    current_question # "" /\ streak_value > no_new_limit

(* conversation_service.py 301 *)
no_new_triggered(current_question, streak_value) ==
    current_question # "" /\ streak_value >= no_new_limit

(* Variant: the reply count has to pass the limit before it triggers *)
limit_reached_OffByOne(current_question, responses_for_question) ==
    current_question # "" /\ responses_for_question > followup_limit

(* conversation_service.py 302 *)
limit_reached(current_question, responses_for_question) ==
    current_question # "" /\ responses_for_question >= followup_limit

(* Variant: only a later discussion question counts as a next question *)
any_next_question_DiscussionOnly(current_index) ==
    next_discussion_text(current_index) # ""

(* conversation_service.py 308 *)
any_next_question(current_index) == current_index + 1 < total_questions

(* Variant: only the no-new-information streak ends a question *)
transition_decision_StreakOnly(current_question, current_question_type, no_new_trigger, reached_limit, has_any_next_question) ==
    LET triggered ==
            /\ current_question # ""
            /\ current_question_type = "discussion"
            /\ no_new_trigger
    IN [ advance_to_next_question |-> triggered /\ has_any_next_question,
         close_conversation       |-> triggered /\ ~has_any_next_question ]

(* conversation_service.py 304-320: which way a turn leaves the question *)
transition_decision(current_question, current_question_type, no_new_trigger, reached_limit, has_any_next_question) ==
    LET triggered ==
            /\ current_question # ""
            /\ current_question_type = "discussion"
            /\ (no_new_trigger \/ reached_limit)
    IN [ advance_to_next_question |-> triggered /\ has_any_next_question,
         close_conversation       |-> triggered /\ ~has_any_next_question ]

(* conversation_service.py 322-330 *)
courtesy_reply(assistant_reply, advance_to_next_question, close_conversation, next_question_text) ==
    LET reply0 == Text(assistant_reply)
        reply1 ==
            IF advance_to_next_question /\ next_question_text # ""
            THEN reply0 \o TransitionNote(next_question_text)
            ELSE reply0
    IN IF close_conversation THEN reply1 \o ClosingNote ELSE reply1

(* Variant: the notes are reset on every turn, not only on the first *)
record_turn_ResetsNotes(mem, message, temp_md_entry, reply, current_index, current_question) ==
    LET c1 == [mem EXCEPT !.scratchpad = << >>, !.views_markdown = ""]
        c2 == _append_scratchpad(c1, temp_md_entry)
        c3 == append_message(c2, "user", Text(message))
        c4 == append_message(c3, "assistant", reply)
        c5 == [c4 EXCEPT !.message_count = @ + 1]
    IN set_response_for_question(c5, current_index, current_question,
           "discussion", NoScore, NoReason, TRUE, c5.history)

(* Variant: the discussion log is stored before the reply is appended *)
record_turn_SnapshotsBeforeReply(mem, message, temp_md_entry, reply, current_index, current_question) ==
    LET c1 == IF mem.message_count = 0
              THEN [mem EXCEPT !.scratchpad = << >>, !.views_markdown = ""]
              ELSE mem
        c2 == _append_scratchpad(c1, temp_md_entry)
        c3 == append_message(c2, "user", Text(message))
        c4 == append_message(c3, "assistant", reply)
        c5 == [c4 EXCEPT !.message_count = @ + 1]
    IN set_response_for_question(c5, current_index, current_question,
           "discussion", NoScore, NoReason, TRUE, c3.history)

(* conversation_service.py 332-355 *)
record_turn(mem, message, temp_md_entry, reply, current_index, current_question) ==
    LET c1 == IF mem.message_count = 0
              THEN [mem EXCEPT !.scratchpad = << >>, !.views_markdown = ""]
              ELSE mem
        c2 == _append_scratchpad(c1, temp_md_entry)
        c3 == append_message(c2, "user", Text(message))
        c4 == append_message(c3, "assistant", reply)
        c5 == [c4 EXCEPT !.message_count = @ + 1]
    IN set_response_for_question(c5, current_index, current_question,
           "discussion", NoScore, NoReason, TRUE, c5.history)

(* Variant: advancing forgets to reset the reply counter *)
apply_transition_KeepsFollowups(c, current_index, current_question, responses_for_question, streak_value, advance_to_next_question, close_conversation) ==
    LET c7 == IF advance_to_next_question
              THEN [c EXCEPT
                      !.current_question_index = current_index + 1,
                      !.question_followups = responses_for_question,
                      !.consecutive_no_new = 0,
                      !.history = << >>]
              ELSE [c EXCEPT
                      !.question_followups =
                          IF close_conversation THEN 0
                          ELSE responses_for_question]
        c8 == IF close_conversation
              THEN [c7 EXCEPT !.current_question_index = total_questions,
                              !.active = FALSE]
              ELSE c7
    IN [c8 EXCEPT !.consecutive_no_new =
            IF advance_to_next_question \/ close_conversation THEN 0
            ELSE streak_value]

(* Variant: closing rewinds the conversation to the first question *)
apply_transition_RewindsOnClose(c, current_index, current_question, responses_for_question, streak_value, advance_to_next_question, close_conversation) ==
    LET c7 == IF advance_to_next_question
              THEN [c EXCEPT
                      !.current_question_index = current_index + 1,
                      !.question_followups = 0,
                      !.consecutive_no_new = 0,
                      !.history = << >>]
              ELSE [c EXCEPT
                      !.question_followups =
                          IF close_conversation THEN 0
                          ELSE responses_for_question]
        c8 == IF close_conversation
              THEN [c7 EXCEPT !.current_question_index = 0,
                              !.active = FALSE]
              ELSE c7
    IN [c8 EXCEPT !.consecutive_no_new =
            IF advance_to_next_question \/ close_conversation THEN 0
            ELSE streak_value]

(* conversation_service.py 357-383 *)
apply_transition(c, current_index, current_question, responses_for_question, streak_value, advance_to_next_question, close_conversation) ==
    LET c7 == IF advance_to_next_question
              THEN [c EXCEPT
                      !.current_question_index =
                          IF any_next_question(current_index)
                          THEN current_index + 1 ELSE total_questions,
                      !.question_followups = 0,
                      !.consecutive_no_new = 0,
                      !.history = << >>]
              ELSE [c EXCEPT
                      !.question_followups =
                          IF close_conversation THEN 0
                          ELSE IF current_question # ""
                               THEN responses_for_question ELSE 0]
        c8 == IF close_conversation
              THEN [c7 EXCEPT !.current_question_index = total_questions,
                              !.active = FALSE]
              ELSE c7
    IN [c8 EXCEPT !.consecutive_no_new =
            IF advance_to_next_question \/ close_conversation THEN 0
            ELSE streak_value]

(* Variant: the follow-up limit is tested before the streak *)
end_reason_of_FollowupFirst(close_conversation, no_new_trigger, reached_limit, has_any_next_question) ==
    IF ~close_conversation THEN ""
    ELSE IF reached_limit /\ ~has_any_next_question THEN "followup_limit"
    ELSE IF no_new_trigger /\ ~has_any_next_question THEN "no_new_limit"
    ELSE ""

(* Variant: only the no-new-information close is given a reason *)
end_reason_of_OnlyNoNew(close_conversation, no_new_trigger, reached_limit, has_any_next_question) ==
    IF close_conversation /\ no_new_trigger /\ ~has_any_next_question
    THEN "no_new_limit"
    ELSE ""

(* conversation_service.py 373-381; "" stands for None *)
end_reason_of(close_conversation, no_new_trigger, reached_limit, has_any_next_question) ==
    IF ~close_conversation THEN ""
    ELSE IF no_new_trigger /\ ~has_any_next_question THEN "no_new_limit"
    ELSE IF reached_limit /\ ~has_any_next_question THEN "followup_limit"
    ELSE ""

(* Variant: an unparseable reply is asked for a second time *)
completion_call_Retry(gw) ==
    IF gw.completion = "error"
    THEN [raised |-> TRUE, error |-> "gateway", calls |-> 1]
    ELSE IF gw.completion = "malformed"
    THEN [raised |-> TRUE, error |-> "malformed", calls |-> 2]
    ELSE [raised |-> FALSE, error |-> "", calls |-> 1]

(* conversation_service.py 271-281: the structured-reply call *)
completion_call(gw) ==
    IF gw.completion = "error"
    THEN [raised |-> TRUE, error |-> "gateway", calls |-> 1]
    ELSE IF gw.completion = "malformed"
    THEN [raised |-> TRUE, error |-> "malformed", calls |-> 1]
    ELSE [raised |-> FALSE, error |-> "", calls |-> 1]

(* Variant: the save leaves a stored stop in place *)
finalize_and_save_KeepsStoredStop(db, c, ended, f) ==
    IF ended /\ f.raised THEN db
    ELSE IF ended THEN f.mem
    ELSE [c EXCEPT !.active = db.active, !.views_markdown = db.views_markdown]

(* Variant: the turn is saved before the closing document is generated *)
finalize_and_save_EarlySave(db, c, ended, f) ==
    IF ended /\ f.raised THEN c
    ELSE IF ended THEN f.mem
    ELSE c

(* Variant: the save counts the message on the stored row *)
finalize_and_save_CountsOnStoredRow(db, c, ended, f) ==
    IF ended /\ f.raised THEN db
    ELSE IF ended THEN [f.mem EXCEPT !.message_count = db.message_count + 1]
    ELSE [c EXCEPT !.message_count = db.message_count + 1]

(* conversation_service.py 385-390: finalize when ended, then save().  f is *)
(* the outcome of _finalize_from_temp on c; the value is the stored row.    *)
finalize_and_save(db, c, ended, f) ==
    IF ended /\ f.raised THEN db
    ELSE IF ended THEN f.mem
    ELSE c

(* process_user_message: db is the stored row, mem the loaded object.  The *)
(* result carries the row as stored when the call returns or raises.       *)
process_user_message(db, mem, message, gw) ==
    LET current_index == Min(mem.current_question_index, total_questions)
        responses_so_far == mem.question_followups
        has_question == total_questions > 0 /\ current_index < total_questions
        current_question ==
            IF has_question THEN get_all_questions[current_index + 1].text
            ELSE ""
        current_question_type ==
            IF has_question THEN get_all_questions[current_index + 1].type
            ELSE "discussion"
        next_question_text == next_discussion_text(current_index)
        call == completion_call(gw)
        responses_for_question ==
            IF current_question # "" THEN responses_so_far + 1
            ELSE responses_so_far
        streak_value ==
            updated_streak(mem.consecutive_no_new, gw.new_information)
        no_new_trigger == no_new_triggered(current_question, streak_value)
        reached_limit == limit_reached(current_question, responses_for_question)
        has_any_next_question == any_next_question(current_index)
        decision ==
            transition_decision(current_question, current_question_type,
                no_new_trigger, reached_limit, has_any_next_question)
        advance_to_next_question == decision.advance_to_next_question
        close_conversation == decision.close_conversation
        reply ==
            courtesy_reply(gw.assistant_reply, advance_to_next_question,
                close_conversation, next_question_text)
        c6 == record_turn(mem, message, gw.temp_md_entry, reply,
                  current_index, current_question)
        c9 == apply_transition(c6, current_index, current_question,
                  responses_for_question, streak_value,
                  advance_to_next_question, close_conversation)
        ended == close_conversation
        end_reason ==
            end_reason_of(close_conversation, no_new_trigger, reached_limit,
                has_any_next_question)
        f == _finalize_from_temp(c9, gw)
        stored == finalize_and_save(db, c9, ended, f)
        turn ==
            [ new_information          |-> gw.new_information,
              assistant_reply          |-> reply,
              ended                    |-> ended,
              end_reason               |-> end_reason,
              final_views_md           |-> IF ended THEN f.value ELSE "",
              streak_value             |-> streak_value,
              responses_for_question   |-> responses_for_question,
              no_new_trigger           |-> no_new_trigger,
              reached_limit            |-> reached_limit,
              advance_to_next_question |-> advance_to_next_question,
              close_conversation       |-> close_conversation ]
    IN  IF ~gw.rag_ok
        THEN [raised |-> TRUE, error |-> "retrieval", calls |-> 0,
              db |-> db, turn |-> NoTurn]
        ELSE IF call.raised
        THEN [raised |-> TRUE, error |-> call.error, calls |-> call.calls,
              db |-> db, turn |-> NoTurn]
        ELSE IF ended /\ f.raised
        THEN [raised |-> TRUE, error |-> "finalize",
              calls |-> call.calls + f.calls,
              db |-> stored, turn |-> NoTurn]
        ELSE [raised |-> FALSE, error |-> "",
              calls |-> call.calls + (IF ended THEN f.calls ELSE 0),
              db |-> stored, turn |-> turn]

(* ------------------------ user_conversation view ----------------------- *)
(* int(score_raw): ok is FALSE where Python raises ValueError              *)
ParseInt(s) ==
    CASE s = "0"  -> [ok |-> TRUE, value |-> 0]
      [] s = "7"  -> [ok |-> TRUE, value |-> 7]
      [] s = "11" -> [ok |-> TRUE, value |-> 11]
      [] OTHER    -> [ok |-> FALSE, value |-> 0]

(* Requests in which only the finalization call can be issued *)
FinalOnlyGateways ==
    [ rag_ok : {TRUE}, completion : {"ok"}, new_information : {FALSE},
      temp_md_entry : {""}, assistant_reply : {""},
      final_ok : BOOLEAN, final_content : FinalOutputs ]

(* Requests of a discussion turn: retrieval fails, or the completion call  *)
(* fails or is unparseable, or everything up to finalization answers       *)
SendGateways ==
    [ rag_ok : {FALSE}, completion : {"ok"}, new_information : {FALSE},
      temp_md_entry : {""}, assistant_reply : {""},
      final_ok : {TRUE}, final_content : {""} ]
    \cup
    [ rag_ok : {TRUE}, completion : {"malformed", "error"},
      new_information : {FALSE}, temp_md_entry : {""},
      assistant_reply : {""}, final_ok : {TRUE}, final_content : {""} ]
    \cup
    [ rag_ok : {TRUE}, completion : {"ok"}, new_information : BOOLEAN,
      temp_md_entry : NoteOutputs, assistant_reply : ReplyOutputs,
      final_ok : BOOLEAN, final_content : FinalOutputs ]

(* No external call is issued in the request *)
NoGateway ==
    [ rag_ok |-> TRUE, completion |-> "ok", new_information |-> FALSE,
      temp_md_entry |-> "", assistant_reply |-> "",
      final_ok |-> TRUE, final_content |-> "" ]

(* views.py 371-374: a conversation past the end of the plan is closed     *)
deactivate_if_complete(c) ==
    IF c.current_question_index >= total_questions
    THEN [c EXCEPT !.active = FALSE]
    ELSE c

(* views.py 376-378 *)
view_question_type(c) ==
    IF c.current_question_index < total_questions
    THEN get_question_at(c.current_question_index).type
    ELSE "discussion"

(* request.POST.get("score") and .get("reason") as the grading branch reads *)
(* them (views.py 402-403); no other branch reads them                     *)
NoSubmission == [score |-> "", reason |-> ""]

Report(op, status, calls, turn, submitted) ==
    [ op |-> op, status |-> status, gateway_calls |-> calls, turn |-> turn,
      submitted |-> submitted, before |-> conversation ]

(* GET, or a POST none of whose branches applies *)
Visit ==
    /\ conversation' = deactivate_if_complete(conversation)
    /\ last' = Report("visit", "ok", 0, NoTurn, NoSubmission)
    /\ UNCHANGED <<session_vars, budget_vars, debate_vars, overlap_vars>>

(* POST action=stop *)
Stop ==
    \E gw \in FinalOnlyGateways :
      LET c0 == deactivate_if_complete(conversation)
          r == stop_conversation(c0, c0, gw)
      IN /\ conversation' = r.db
         /\ last' = Report("stop", IF r.raised THEN "error" ELSE "ok",
                           r.calls, NoTurn, NoSubmission)
         /\ UNCHANGED <<session_vars, budget_vars, debate_vars, overlap_vars>>

(* Variant: the score has no upper end *)
score_in_range_NoUpperEnd(score) == 1 <= score

(* views.py 407 *)
score_in_range(score) == 1 <= score /\ score <= 10

(* views.py 400-444 *)
submit_grading(c0, score_raw, reason_raw, gw) ==
    LET current_index == c0.current_question_index
        reason == strip(reason_raw)
        parsed == ParseInt(score_raw)
        valid == parsed.ok /\ score_in_range(parsed.value)
        c1 == set_response_for_question(c0, current_index,
                  get_question_at(current_index).text, "grading",
                  parsed.value, reason, FALSE, << >>)
        c2 == [c1 EXCEPT !.current_question_index = current_index + 1,
                         !.question_followups = 0,
                         !.consecutive_no_new = 0,
                         !.history = << >>]
        last_question == c2.current_question_index >= total_questions
        c3 == [c2 EXCEPT !.active = FALSE]
        f == _finalize_from_temp(c3, gw)
    IN  IF view_question_type(c0) # "grading"
        THEN [status |-> "ignored", calls |-> 0, db |-> c0]
        ELSE IF ~valid \/ reason = ""
        THEN [status |-> "rejected", calls |-> 0, db |-> c0]
        ELSE IF ~last_question
        THEN [status |-> "ok", calls |-> 0, db |-> c2]
        ELSE IF f.raised
        THEN [status |-> "error", calls |-> f.calls, db |-> c0]
        ELSE [status |-> "ok", calls |-> f.calls, db |-> f.mem]

grading_accepts(c, score_raw, reason_raw) ==
    submit_grading(deactivate_if_complete(c), score_raw, reason_raw,
                   NoGateway).status = "ok"

(* POST action=submit_grading *)
SubmitGrading ==
    \E score_raw \in ScoreInputs, reason_raw \in ReasonInputs :
    \E gw \in IF grading_accepts(conversation, score_raw, reason_raw)
               THEN FinalOnlyGateways ELSE {NoGateway} :
      LET c0 == deactivate_if_complete(conversation)
          r == submit_grading(c0, score_raw, reason_raw, gw)
          form == IF view_question_type(c0) = "grading"
                  THEN [score |-> score_raw, reason |-> reason_raw]
                  ELSE NoSubmission
      IN /\ conversation' = r.db
         /\ last' = Report("submit_grading", r.status, r.calls, NoTurn, form)
         /\ UNCHANGED <<session_vars, budget_vars, debate_vars, overlap_vars>>

(* views.py 446-492 *)
send(c0, message, gw) ==
    LET r == process_user_message(c0, c0, message, gw)
    IN  IF view_question_type(c0) # "discussion"
        THEN [status |-> "ignored", calls |-> 0, db |-> c0, turn |-> NoTurn]
        ELSE IF topic = "" \/ ~c0.active \/ strip(message) = ""
        THEN [status |-> "rejected", calls |-> 0, db |-> c0, turn |-> NoTurn]
        ELSE IF r.raised
        THEN [status |-> r.error, calls |-> r.calls, db |-> r.db,
              turn |-> NoTurn]
        ELSE [status |-> "ok", calls |-> r.calls, db |-> r.db,
              turn |-> r.turn]

send_accepts(c, message) ==
    send(deactivate_if_complete(c), message, NoGateway).status = "ok"

(* POST action=send *)
Send ==
    \E message \in MessageInputs :
    \E gw \in IF send_accepts(conversation, message)
               THEN SendGateways ELSE {NoGateway} :
      LET c0 == deactivate_if_complete(conversation)
          r == send(c0, message, gw)
      IN /\ conversation' = r.db
         /\ last' = Report("send", r.status, r.calls, r.turn, NoSubmission)
         /\ UNCHANGED <<session_vars, budget_vars, debate_vars, overlap_vars>>

(* ----------------------------- behaviours ------------------------------ *)
RECURSIVE Plans(_)
Plans(n) ==
    IF n = 0 THEN {<< >>}
    ELSE LET shorter == Plans(n - 1)
         IN shorter \cup
            { Append(p, [text |-> QText[Len(p) + 1], type |-> t]) :
                p \in {q \in shorter : Len(q) = n - 1}, t \in QuestionTypes }

(* No request list is being built *)
NoBudget == messages = << >> /\ sent = << >>

(* AIDebateRun before objects.create *)
NoRun == [created |-> FALSE, transcript |-> << >>, completed |-> FALSE]

(* run_deliberation has not been called *)
NotRunning ==
    [ pc |-> "idle", question_idx |-> 0, agent_idx |-> 0,
      transcript |-> << >>, opinions_so_far |-> << >>,
      round1_opinions |-> << >> ]

(* The DiscussionSession rows in the order of their primary keys and what  *)
(* the last session operation was: its name, the row it was about, whether *)
(* it ended in an exception, and the rows that were active before it       *)
SessionTable(rows, op, pk, raised, active_before) ==
    [ rows |-> rows, op |-> op, pk |-> pk, raised |-> raised,
      active_before |-> active_before ]

(* The table holds the session of the conversation, active, and no session *)
(* operation is made                                                       *)
ActiveSessionOnly ==
    SessionTable(<< [s_id |-> "default", is_active |-> TRUE] >>, "", 0, FALSE, {})

(* No AIDebateSummary row is stored and no summary has been asked for *)
NoSummary ==
    [ created |-> FALSE, summary_markdown |-> 0, asked |-> 0,
      message |-> "" ]

(* No debate is configured or running *)
NoDebate ==
    /\ questions = << >>
    /\ personas = << >>
    /\ run = NoRun
    /\ deliberation = NotRunning
    /\ requests = << >>
    /\ debate_summary = NoSummary

(* The conversation row as a request that has not started holds it *)
NotLoaded == NewConversation

(* A send request that has not reached the server *)
NotSent ==
    [ pc |-> "idle", loaded |-> NotLoaded, overlapping |-> FALSE,
      gateway |-> NoGateway, saved |-> FALSE, order |-> 0,
      stopped |-> FALSE, stop_views |-> "" ]

(* No two requests are in flight together *)
NoOverlap == inflight = [p \in {"a", "b"} |-> NotSent]

Init ==
    /\ NoBudget
    /\ NoDebate
    /\ NoOverlap
    /\ objective_questions \in Plans(MaxPlan)
    /\ question_followup_limit \in 0..MaxLimit
    /\ no_new_information_limit \in 0..MaxLimit
    /\ topic \in {"", "topic"}
    /\ discussion_sessions = ActiveSessionOnly
    /\ conversation = NewConversation
    /\ last = Report("create", "ok", 0, NoTurn, NoSubmission)

Next == Visit \/ Stop \/ SubmitGrading \/ Send

Spec == Init /\ [][Next]_vars

(* ------------------------------- claims -------------------------------- *)
(* The row as it was when the last request arrived *)
Before == last.before

(* The last request was a discussion turn that was processed and saved *)
TurnOk == last.op = "send" /\ last.status = "ok"

BeforeKind == get_question_at(Before.current_question_index).type

IndexChanged ==
    conversation.current_question_index # Before.current_question_index

(* The counters of the turn as the specification updates them *)
TurnStreak ==
    IF last.turn.new_information THEN 0 ELSE Before.consecutive_no_new + 1

TurnFollowUps == Before.question_followups + 1

NoNewTrigger == TurnStreak >= no_new_limit

LimitTrigger == TurnFollowUps >= followup_limit

HasNextQuestion == Before.current_question_index + 1 < total_questions

(* C1: while the conversation is active the stored no-new-information      *)
(* streak never exceeds the limit, and a turn whose updated streak reaches *)
(* the limit advances the question index or closes the conversation.       *)
C1_StreakWithinLimit ==
    /\ conversation.active =>
           conversation.consecutive_no_new <= no_new_limit
    /\ (TurnOk /\ TurnStreak >= no_new_limit) =>
           (IndexChanged \/ ~conversation.active)

C1_Witness ==
    /\ TurnOk
    /\ TurnStreak >= no_new_limit
    /\ TurnFollowUps < followup_limit
    /\ IndexChanged
    /\ conversation.active

(* C2: on a discussion question the turn in which the reply count reaches  *)
(* the follow-up limit advances when a next question exists and closes     *)
(* otherwise; so whenever the current question is a discussion question    *)
(* the stored reply count is strictly below the limit.                     *)
C2_FollowUpsBelowLimit ==
    /\ ( /\ conversation.current_question_index < total_questions
         /\ get_question_at(conversation.current_question_index).type
                = "discussion" ) =>
           conversation.question_followups < followup_limit
    /\ (TurnOk /\ BeforeKind = "discussion" /\ LimitTrigger) =>
           IF HasNextQuestion
           THEN conversation.current_question_index
                    = Before.current_question_index + 1
           ELSE ~conversation.active

C2_Witness ==
    /\ TurnOk
    /\ BeforeKind = "discussion"
    /\ LimitTrigger
    /\ ~NoNewTrigger
    /\ Before.question_followups > 0

(* C3: a request that changes the question index leaves both counters at  *)
(* 0, and a request that keeps the index never resets a non-zero reply     *)
(* count to 0.                                                             *)
C3_ResetExactlyOnIndexChange ==
    /\ IndexChanged =>
           /\ conversation.question_followups = 0
           /\ conversation.consecutive_no_new = 0
    /\ (~IndexChanged /\ Before.question_followups # 0) =>
           conversation.question_followups # 0

C3_Witness ==
    /\ TurnOk
    /\ IndexChanged
    /\ conversation.active
    /\ Before.question_followups # 0
    /\ conversation.question_followups = 0

(* C4: with the plan fixed, no request decreases the question index, and   *)
(* the index stays within 0..|plan|.                                       *)
C4_IndexMonotoneInRange ==
    /\ conversation.current_question_index >= Before.current_question_index
    /\ conversation.current_question_index >= 0
    /\ conversation.current_question_index <= total_questions

C4_Witness ==
    /\ TurnOk
    /\ total_questions = 2
    /\ Before.current_question_index = 1
    /\ conversation.current_question_index = total_questions

(* C5: once the conversation is inactive, neither a discussion utterance   *)
(* nor a grading submission changes the index, the counters, the history   *)
(* or the per-question responses.                                          *)
C5_ClosedAcceptsNoTurn ==
    (~Before.active /\ last.op \in {"send", "submit_grading"}) =>
        /\ conversation.current_question_index
               = Before.current_question_index
        /\ conversation.question_followups = Before.question_followups
        /\ conversation.consecutive_no_new = Before.consecutive_no_new
        /\ conversation.history = Before.history
        /\ conversation.responses = Before.responses

(* C6: a reply that cannot be parsed fails the turn after the one          *)
(* generation call, and the stored conversation is exactly as before.      *)
C6_MalformedLeavesState ==
    (last.op = "send" /\ last.status = "malformed") =>
        /\ conversation = Before
        /\ last.gateway_calls = 1

C6_Witness ==
    /\ last.op = "send"
    /\ last.status = "malformed"
    /\ Before.message_count > 0
    /\ Before.active

(* C7: when the retrieval call, the structured-reply call or the           *)
(* finalization call of a closing turn fails, the stored conversation      *)
(* after the turn equals the stored conversation before it.                *)
C7_GatewayFailureLeavesState ==
    (last.op = "send" /\ last.status \in {"retrieval", "gateway", "finalize"})
        => conversation = Before

C7_Witness ==
    /\ last.op = "send"
    /\ last.status = "finalize"
    /\ conversation.active
    /\ conversation.scratchpad = << >>

(* The plan and limits of the C8 run: one discussion question, both limits 2 *)
C8_Setup ==
    /\ objective_questions = <<[text |-> "q1", type |-> "discussion"]>>
    /\ question_followup_limit = 2
    /\ no_new_information_limit = 2

(* The last request was the k-th processed turn of the conversation *)
C8_Turn(k) == TurnOk /\ conversation.message_count = k

(* C8 as stated: turn 1 (novel) and turn 2 (not novel) leave the           *)
(* conversation active on question 0 with streak 0 and 1, and turn 3 (not  *)
(* novel) closes it with end reason "no_new_limit".                        *)
C8_ThreeTurnRun ==
    C8_Setup =>
        /\ (C8_Turn(1) /\ last.turn.new_information) =>
               /\ conversation.consecutive_no_new = 0
               /\ conversation.current_question_index = 0
               /\ conversation.active
        /\ ( /\ C8_Turn(2)
             /\ Before.consecutive_no_new = 0
             /\ ~last.turn.new_information ) =>
               /\ conversation.consecutive_no_new = 1
               /\ conversation.current_question_index = 0
               /\ conversation.active
        /\ ( /\ C8_Turn(3)
             /\ Before.consecutive_no_new = 1
             /\ ~last.turn.new_information ) =>
               /\ ~conversation.active
               /\ last.turn.end_reason = "no_new_limit"

(* C8 amended: turn 1 (novel) leaves the conversation active on question 0 *)
(* with streak 0; turn 2 (not novel) makes the streak 1 and the reply      *)
(* count 2, which is the follow-up limit, so turn 2 closes the             *)
(* conversation with end reason "followup_limit"; there is no third turn.  *)
C8_TwoTurnRun ==
    C8_Setup =>
        /\ (C8_Turn(1) /\ last.turn.new_information) =>
               /\ conversation.consecutive_no_new = 0
               /\ conversation.current_question_index = 0
               /\ conversation.active
        /\ ( /\ C8_Turn(2)
             /\ Before.consecutive_no_new = 0
             /\ ~last.turn.new_information ) =>
               /\ last.turn.streak_value = 1
               /\ ~conversation.active
               /\ conversation.current_question_index = 1
               /\ last.turn.ended
               /\ last.turn.end_reason = "followup_limit"
        /\ conversation.message_count <= 2

C8_Witness ==
    /\ C8_Setup
    /\ C8_Turn(2)
    /\ Before.consecutive_no_new = 0
    /\ ~last.turn.new_information
    /\ ~conversation.active

(* C9: a trigger on a discussion question that is followed by another      *)
(* question of any kind advances the index by exactly one, resets both     *)
(* counters, clears the history and leaves the conversation active.        *)
C9_AdvanceKeepsActive ==
    ( /\ TurnOk
      /\ BeforeKind = "discussion"
      /\ (NoNewTrigger \/ LimitTrigger)
      /\ HasNextQuestion ) =>
        /\ conversation.current_question_index
               = Before.current_question_index + 1
        /\ conversation.question_followups = 0
        /\ conversation.consecutive_no_new = 0
        /\ conversation.history = << >>
        /\ conversation.active

C9_Witness ==
    /\ TurnOk
    /\ LimitTrigger
    /\ ~NoNewTrigger
    /\ Before.current_question_index = 0
    /\ total_questions = 2
    /\ get_question_at(1).type = "grading"
    /\ conversation.current_question_index = 1
    /\ conversation.active

(* C10: a turn closes the conversation only when a trigger fires on the    *)
(* last question; the closing turn leaves active false and the index at    *)
(* |plan|, and returns ended with end reason "no_new_limit" or             *)
(* "followup_limit".                                                       *)
C10_CloseOnlyOnLastQuestion ==
    /\ (TurnOk /\ ~conversation.active) =>
           /\ Before.current_question_index = total_questions - 1
           /\ BeforeKind = "discussion"
           /\ (NoNewTrigger \/ LimitTrigger)
           /\ conversation.current_question_index = total_questions
           /\ last.turn.ended
           /\ last.turn.end_reason \in {"no_new_limit", "followup_limit"}
    /\ (TurnOk /\ last.turn.ended) => ~conversation.active

C10_Witness ==
    /\ TurnOk
    /\ ~conversation.active
    /\ total_questions = 2
    /\ LimitTrigger
    /\ ~NoNewTrigger
    /\ last.turn.end_reason = "followup_limit"

(* The turn ceiling the finalization prompt documents (prompts.py 87-88) *)
MessageCeiling == 15

(* C11: with an empty question plan the conversation runs open-ended: it   *)
(* stays active while fewer than 15 turns have been processed, and it is   *)
(* closed only by the turn that brings the count to 15, whose end reason   *)
(* is "message_limit".                                                     *)
C11_OpenEndedUntilCeiling ==
    total_questions = 0 =>
        /\ conversation.message_count < MessageCeiling => conversation.active
        /\ ~conversation.active =>
               /\ conversation.message_count = MessageCeiling
               /\ last.turn.end_reason = "message_limit"

(* The last request was a grading submission whose form is valid: an       *)
(* integer score in 1..10 and a reason that is not blank                   *)
ValidGradingSubmission ==
    /\ last.op = "submit_grading"
    /\ ParseInt(last.submitted.score).ok
    /\ ParseInt(last.submitted.score).value \in 1..10
    /\ strip(last.submitted.reason) # ""

(* The submitted score and reason are stored under the index submitted to *)
SubmissionRecorded ==
    \E k \in 1..Len(conversation.responses) :
        /\ conversation.responses[k].question_index
               = Before.current_question_index
        /\ conversation.responses[k].question_type = "grading"
        /\ conversation.responses[k].score
               = ParseInt(last.submitted.score).value
        /\ conversation.responses[k].reason = strip(last.submitted.reason)

AdvancedByOne ==
    conversation.current_question_index = Before.current_question_index + 1

(* C12 as stated: a valid grading submission records the score and the     *)
(* reason under the current index, advances the index by exactly one and   *)
(* makes no text-generation call.                                          *)
C12_RecordsWithoutGateway ==
    ValidGradingSubmission =>
        /\ SubmissionRecorded
        /\ AdvancedByOne
        /\ last.gateway_calls = 0

(* C12: a valid grading submission on a question that is not the last of   *)
(* the plan records the score and the reason under the current index,      *)
(* advances the index by exactly one and makes no text-generation call.    *)
(* On the last question of the plan it also finalizes, which makes one     *)
(* call when the scratchpad is not empty and none otherwise; when that     *)
(* call fails nothing is recorded and the row is unchanged, otherwise the  *)
(* submission is recorded and the index advances by one.                   *)
C12_RecordsAndFinalizesOnLast ==
    ValidGradingSubmission =>
        IF HasNextQuestion
        THEN /\ SubmissionRecorded
             /\ AdvancedByOne
             /\ last.gateway_calls = 0
        ELSE /\ last.gateway_calls
                    = IF Before.scratchpad = << >> THEN 0 ELSE 1
             /\ last.status \in {"ok", "error"}
             /\ last.status = "ok" => (SubmissionRecorded /\ AdvancedByOne)
             /\ last.status = "error" =>
                    (conversation = Before /\ last.gateway_calls = 1)

C12_Witness ==
    /\ ValidGradingSubmission
    /\ ~HasNextQuestion
    /\ last.status = "ok"
    /\ last.gateway_calls = 1
    /\ SubmissionRecorded
    /\ AdvancedByOne

(* The last request reached the grading branch, which read the form *)
GradingFormRead ==
    last.op = "submit_grading" /\ view_question_type(Before) = "grading"

InvalidGradingSubmission ==
    /\ GradingFormRead
    /\ \/ ~ParseInt(last.submitted.score).ok
       \/ ParseInt(last.submitted.score).value \notin 1..10
       \/ strip(last.submitted.reason) = ""

(* C13: a grading submission whose score is not an integer in 1..10 or     *)
(* whose reason is empty is rejected without any call to the engine or to  *)
(* a gateway, and the stored conversation is exactly what it was.          *)
C13_InvalidSubmissionRejected ==
    InvalidGradingSubmission =>
        /\ last.status = "rejected"
        /\ last.gateway_calls = 0
        /\ conversation = Before

C13_Witness ==
    /\ InvalidGradingSubmission
    /\ last.submitted.score = "11"
    /\ last.submitted.reason = "because"
    /\ ~HasNextQuestion
    /\ Before.scratchpad # << >>
    /\ last.status = "rejected"

(* The three places that run _finalize_from_temp, with the scratchpad each *)
(* hands to _finalize_views_document and the calls the request spends on   *)
(* it: a manual stop without a cached document (stop_conversation), the    *)
(* valid grading submission for the last question (views.py 433-437), and  *)
(* a closing discussion turn (after its own completion call).              *)
StopFinalizes == last.op = "stop" /\ Before.views_markdown = ""

LastGradingFinalizes == ValidGradingSubmission /\ ~HasNextQuestion

ClosingTurnFinalizes == TurnOk /\ last.turn.ended

(* C14: finalization of a scratchpad that is empty or blank yields the     *)
(* empty document and issues no text-generation call; finalization of any  *)
(* other scratchpad issues exactly one.                                    *)
C14_FinalizationCalls ==
    /\ StopFinalizes =>
          IF Before.scratchpad = << >>
          THEN /\ last.gateway_calls = 0
               /\ last.status = "ok"
               /\ conversation.views_markdown = ""
          ELSE last.gateway_calls = 1
    /\ LastGradingFinalizes =>
          IF Before.scratchpad = << >>
          THEN /\ last.gateway_calls = 0
               /\ last.status = "ok"
               /\ conversation.views_markdown = ""
          ELSE last.gateway_calls = 1
    /\ ClosingTurnFinalizes =>
          IF conversation.scratchpad = << >>
          THEN /\ last.gateway_calls = 1
               /\ last.turn.final_views_md = ""
               /\ conversation.views_markdown = ""
          ELSE last.gateway_calls = 2

(* A closing turn that took no note, and so finalized an empty scratchpad *)
C14_Witness ==
    /\ ClosingTurnFinalizes
    /\ conversation.scratchpad = << >>
    /\ last.gateway_calls = 1
    /\ conversation.views_markdown = ""

(* A manual stop that finalized a scratchpad holding a note *)
C14_WitnessNonEmpty ==
    /\ StopFinalizes
    /\ Before.scratchpad # << >>
    /\ last.status = "ok"
    /\ last.gateway_calls = 1
    /\ conversation.views_markdown = "doc"

(* C15: every operation that closes a conversation finalizes the           *)
(* scratchpad and stores the result, so a closed conversation whose        *)
(* scratchpad is not empty always has its final document populated.        *)
C15_ClosedHasFinalDocument ==
    (~conversation.active /\ conversation.scratchpad # << >>) =>
        conversation.views_markdown # ""

(* ------------------- token budget of a turn's request ------------------ *)
(* process_user_message builds the list of messages of its completion      *)
(* request and cuts it when its estimated size passes the budget           *)
(* (conversation_service.py 216-269).  Here a message is represented by    *)
(* the number of characters of its content, which is all the guard reads.  *)
MaxPrefix == 8

(* 1 / TOKENS_PER_CHAR *)
CHARS_PER_TOKEN == 4

MAX_TOKENS_PER_REQUEST == 8000

(* the system, topic, streak, guard and instructions prompts, always there *)
FixedPrompts == 5

(* len(messages_copy) > 5 *)
CopyFloor == 5

(* "Treat the following expert reply ... before responding.\n\n" *)
DirectiveLength == 112

(* lengths of contents: empty, half a budget, more than a budget *)
ContentLengths == {0, 16000, 40000}

(* UserMessageForm: at most 4000 characters *)
MessageLengths == {1, 4000}

(* max(1, int(len(text) * TOKENS_PER_CHAR)) *)
estimate_tokens(text) == Max(1, text \div CHARS_PER_TOKEN)

RECURSIVE total_tokens(_)
total_tokens(ms) ==
    IF ms = << >> THEN 0
    ELSE estimate_tokens(Head(ms)) + total_tokens(Tail(ms))

(* ms[:-2] and ms[-2:] *)
AllButLastTwo(ms) == SubSeq(ms, 1, Len(ms) - 2)

LastTwo(ms) == SubSeq(ms, Len(ms) - 1, Len(ms))

(* Variant: the loop runs for as long as the list is over the budget *)
RECURSIVE truncate_copy_NoFloor(_, _)
truncate_copy_NoFloor(messages_copy, tail) ==
    IF Len(messages_copy) > 0 /\ total_tokens(messages_copy \o tail) > MAX_TOKENS_PER_REQUEST
    THEN truncate_copy_NoFloor(AllButLastTwo(messages_copy), tail)
    ELSE messages_copy

(* the while loop of lines 266-267 *)
RECURSIVE truncate_copy(_, _)
truncate_copy(messages_copy, tail) ==
    IF Len(messages_copy) > CopyFloor /\ total_tokens(messages_copy \o tail) > MAX_TOKENS_PER_REQUEST
    THEN truncate_copy(AllButLastTwo(messages_copy), tail)
    ELSE messages_copy

(* lines 262-269: the list handed to chat.completions.create *)
apply_budget(ms) ==
    IF total_tokens(ms) > MAX_TOKENS_PER_REQUEST
    THEN truncate_copy(AllButLastTwo(ms), LastTwo(ms)) \o LastTwo(ms)
    ELSE ms

(* The lists process_user_message can build: the fixed prompts, the        *)
(* optional prompts and history, then the directive copy of the message    *)
(* and the message itself.                                                 *)
BuiltLists ==
    { prefix \o <<DirectiveLength + m, m>> :
        prefix \in UNION { [1..n -> ContentLengths] : n \in FixedPrompts..MaxPrefix },
        m \in MessageLengths }

(* The conversation engine is not exercised *)
NoConversation ==
    /\ objective_questions = << >>
    /\ question_followup_limit = 1
    /\ no_new_information_limit = 1
    /\ topic = ""
    /\ discussion_sessions = ActiveSessionOnly
    /\ conversation = NewConversation
    /\ last = Report("create", "ok", 0, NoTurn, NoSubmission)

BudgetInit ==
    /\ NoConversation
    /\ NoDebate
    /\ NoOverlap
    /\ messages \in BuiltLists
    /\ sent = << >>

(* lines 262-273: the guard, then the list goes out *)
SendRequest ==
    /\ sent = << >>
    /\ sent' = apply_budget(messages)
    /\ UNCHANGED <<conversation_vars, overlap_vars, messages, debate_vars>>

BudgetNext == SendRequest

SpecBudget == BudgetInit /\ [][BudgetNext]_vars

(* The budget can be met by dropping entries the way the guard drops them, *)
(* two at a time from the end of the part before the final two, with at    *)
(* least 5 entries left in the list.                                       *)
BudgetAchievable ==
    \E k \in 0..Len(messages) :
        /\ Len(messages) - 2 * k >= 5
        /\ total_tokens(SubSeq(messages, 1, Len(messages) - 2 - 2 * k) \o LastTwo(messages)) <= MAX_TOKENS_PER_REQUEST

MaxQuestions == 2
MaxPersonas == 3
MaxEmptyAnswers == 1

QuestionNames == <<"dq1", "dq2", "dq3", "dq4">>
PersonaNames == <<"A", "B", "C", "D", "E">>

(* completion.choices[0].message.content or "" *)
EmptyText == 0

num_agents == Len(personas)

AgentOpinion(persona, opinion, summary) ==
    [persona |-> persona, opinion |-> opinion, summary |-> summary]

(* What the two completion calls of one agent turn answer: a text, no      *)
(* content, or an exception.  The summary call is only issued for an       *)
(* opinion that is not empty.                                              *)
TurnGateways ==
    [opinion : {"empty", "error"}, summary : {"text"}]
    \cup [opinion : {"text"}, summary : {"text", "empty", "error"}]

(* lines 162-167: one line "Agent k (persona): summary" per prior opinion *)
opinions_text(prior_opinions) ==
    [k \in 1..Len(prior_opinions) |->
        [persona |-> prior_opinions[k].persona,
         summary |-> prior_opinions[k].summary]]

OpinionRequest(persona, question, prior_opinions, round_number) ==
    [ call |-> "opinion", persona |-> persona, question |-> question,
      round_number |-> round_number,
      opinions |-> opinions_text(prior_opinions), opinion |-> EmptyText ]

SummaryRequest(persona, opinion) ==
    [ call |-> "summary", persona |-> persona, question |-> "",
      round_number |-> 0, opinions |-> << >>, opinion |-> opinion ]

(* serial: the number of requests issued before this call *)
_generate_terse_summary(persona, opinion, gw, serial) ==
    IF opinion = EmptyText
    THEN [raised |-> FALSE, value |-> EmptyText, requests |-> << >>]
    ELSE [ raised   |-> gw.summary = "error",
           value    |-> IF gw.summary = "text" THEN serial + 1 ELSE EmptyText,
           requests |-> <<SummaryRequest(persona, opinion)>> ]

_get_agent_opinion(persona, question, prior_opinions, round_number, gw, serial) ==
    LET request == OpinionRequest(persona, question, prior_opinions, round_number)
        opinion_text == IF gw.opinion = "text" THEN serial + 1 ELSE EmptyText
        s == _generate_terse_summary(persona, opinion_text, gw, serial + 1)
    IN  IF gw.opinion = "error"
        THEN [ raised |-> TRUE, requests |-> <<request>>,
               value |-> AgentOpinion(persona, EmptyText, EmptyText) ]
        ELSE [ raised |-> s.raised, requests |-> <<request>> \o s.requests,
               value |-> AgentOpinion(persona, opinion_text, s.value) ]

(* Variant: the rotation starts at the speaking agent itself *)
rotating_sequence_IncludesSelf(starting_agent_idx) ==
    [i \in 1..(num_agents - 1) |-> (starting_agent_idx + i - 1) % num_agents]

(* lines 103-106 *)
rotating_sequence(starting_agent_idx) ==
    [i \in 1..(num_agents - 1) |-> (starting_agent_idx + i) % num_agents]

(* Variant: the opinions are handed over in agent order, not rotated *)
opinions_to_share_InAgentOrder(round1_opinions, sequence) ==
    LET others == {sequence[k] : k \in 1..Len(sequence)}
        nth(k) == CHOOSE x \in others : Cardinality({y \in others : y < x}) = k - 1
    IN [k \in 1..Len(sequence) |-> round1_opinions[nth(k) + 1]]

(* lines 109-112 *)
opinions_to_share(round1_opinions, sequence) ==
    [k \in 1..Len(sequence) |-> round1_opinions[sequence[k] + 1]]

(* Variant: what earlier agents said is not kept for the later ones *)
hear_opinion_Forgets(opinions_so_far, opinion) == opinions_so_far

(* line 82 *)
hear_opinion(opinions_so_far, opinion) == Append(opinions_so_far, opinion)

(* Variant: the newest turn is put in front *)
record_in_transcript_InFront(transcript, question_idx, round, agent_idx, opinion) ==
    << [ question_index |-> question_idx,
         question       |-> questions[question_idx + 1],
         round          |-> round,
         agent_index    |-> agent_idx,
         persona        |-> opinion.persona,
         opinion        |-> opinion.opinion,
         terse_summary  |-> opinion.summary ] >> \o transcript

(* lines 86-94 and 128-136 *)
record_in_transcript(transcript, question_idx, round, agent_idx, opinion) ==
    Append(transcript,
           [ question_index |-> question_idx,
             question       |-> questions[question_idx + 1],
             round          |-> round,
             agent_index    |-> agent_idx,
             persona        |-> opinion.persona,
             opinion        |-> opinion.opinion,
             terse_summary  |-> opinion.summary ])

(* Turns recorded so far whose summary is empty *)
EmptyAnswers ==
    Cardinality({k \in 1..Len(deliberation.transcript) :
                    deliberation.transcript[k].terse_summary = EmptyText})

(* The answers considered for the next turn: at most MaxEmptyAnswers turns *)
(* of a run get an empty opinion or an empty summary                       *)
GatewaysNow ==
    IF EmptyAnswers < MaxEmptyAnswers THEN TurnGateways
    ELSE {gw \in TurnGateways : gw.opinion # "empty" /\ gw.summary # "empty"}

(* the exception leaves run_deliberation: its locals are gone *)
Raised == [NotRunning EXCEPT !.pc = "raised"]

(* Variant: the run of an empty session is returned as created *)
StartRun_LeavesEmptyRunOpen ==
    /\ deliberation.pc = "idle"
    /\ run' = [created |-> TRUE, transcript |-> << >>, completed |-> FALSE]
    /\ IF questions = << >> \/ personas = << >>
       THEN deliberation' = [NotRunning EXCEPT !.pc = "returned"]
       ELSE deliberation' = [NotRunning EXCEPT !.pc = "round1"]
    /\ UNCHANGED <<conversation_vars, overlap_vars, budget_vars, debate_summary, questions, personas, requests>>

(* lines 52-60 *)
StartRun ==
    /\ deliberation.pc = "idle"
    /\ IF questions = << >> \/ personas = << >>
       THEN /\ run' = [created |-> TRUE, transcript |-> << >>, completed |-> TRUE]
            /\ deliberation' = [NotRunning EXCEPT !.pc = "returned"]
       ELSE /\ run' = [created |-> TRUE, transcript |-> << >>, completed |-> FALSE]
            /\ deliberation' = [NotRunning EXCEPT !.pc = "round1"]
    /\ UNCHANGED <<conversation_vars, overlap_vars, budget_vars, debate_summary, questions, personas, requests>>

(* lines 72-94: one pass of the round 1 loop *)
InitialTurn ==
    /\ deliberation.pc = "round1"
    /\ \E gw \in GatewaysNow :
         LET d == deliberation
             r == _get_agent_opinion(personas[d.agent_idx + 1], questions[d.question_idx + 1], d.opinions_so_far, 1, gw, Len(requests))
             last_agent == d.agent_idx + 1 >= num_agents
         IN /\ requests' = requests \o r.requests
            /\ deliberation' =
                 IF r.raised THEN Raised
                 ELSE [d EXCEPT
                         !.opinions_so_far = hear_opinion(@, r.value),
                         !.round1_opinions = Append(@, r.value),
                         !.transcript = record_in_transcript(@, d.question_idx, 1, d.agent_idx, r.value),
                         !.agent_idx = IF last_agent THEN 0 ELSE @ + 1,
                         !.pc = IF last_agent THEN "round2" ELSE "round1"]
    /\ UNCHANGED <<conversation_vars, overlap_vars, budget_vars, debate_summary, questions, personas, run>>

(* lines 101-136: one pass of the round 2 loop *)
CritiqueTurn ==
    /\ deliberation.pc = "round2"
    /\ \E gw \in GatewaysNow :
         LET d == deliberation
             starting_agent_idx == d.agent_idx
             shared == opinions_to_share(d.round1_opinions, rotating_sequence(starting_agent_idx))
             r == _get_agent_opinion(personas[starting_agent_idx + 1], questions[d.question_idx + 1], shared, 2, gw, Len(requests))
             last_agent == starting_agent_idx + 1 >= num_agents
             last_question == d.question_idx + 1 >= Len(questions)
             recorded == record_in_transcript(d.transcript, d.question_idx, 2, starting_agent_idx, r.value)
         IN /\ requests' = requests \o r.requests
            /\ deliberation' =
                 IF r.raised THEN Raised
                 ELSE IF ~last_agent
                 THEN [d EXCEPT !.transcript = recorded, !.agent_idx = @ + 1]
                 ELSE IF ~last_question
                 THEN [d EXCEPT !.transcript = recorded,
                                !.agent_idx = 0,
                                !.question_idx = @ + 1,
                                !.opinions_so_far = << >>,
                                !.round1_opinions = << >>,
                                !.pc = "round1"]
                 ELSE [d EXCEPT !.transcript = recorded, !.agent_idx = 0,
                                !.pc = "save"]
    /\ UNCHANGED <<conversation_vars, overlap_vars, budget_vars, debate_summary, questions, personas, run>>

(* Variant: the transcript is saved first, completed in a second save *)
SaveRun_InTwoSaves ==
    /\ deliberation.pc = "save"
    /\ IF run.transcript # deliberation.transcript
       THEN /\ run' = [run EXCEPT !.transcript = deliberation.transcript]
            /\ UNCHANGED deliberation
       ELSE /\ run' = [run EXCEPT !.completed = TRUE]
            /\ deliberation' = [deliberation EXCEPT !.pc = "returned"]
    /\ UNCHANGED <<conversation_vars, overlap_vars, budget_vars, debate_summary, questions, personas, requests>>

(* lines 138-141 *)
SaveRun ==
    /\ deliberation.pc = "save"
    /\ run' = [run EXCEPT !.transcript = deliberation.transcript,
                          !.completed = TRUE]
    /\ deliberation' = [deliberation EXCEPT !.pc = "returned"]
    /\ UNCHANGED <<conversation_vars, overlap_vars, budget_vars, debate_summary, questions, personas, requests>>

(* views.py 666-679, POST action=run_deliberation of the moderator         *)
(* dashboard: the branch calls service.start_deliberation(blocking=False), *)
(* a method AIDeliberationService does not have; the AttributeError is     *)
(* caught by the branch's except clause, an error message is shown and no  *)
(* run is created.                                                         *)
RequestRun ==
    /\ deliberation.pc = "idle"
    /\ deliberation' = [NotRunning EXCEPT !.pc = "rejected"]
    /\ UNCHANGED <<conversation_vars, overlap_vars, budget_vars, debate_summary, questions, personas, run, requests>>

DebateInit ==
    /\ NoConversation
    /\ NoBudget
    /\ NoOverlap
    /\ questions \in {SubSeq(QuestionNames, 1, n) : n \in 0..MaxQuestions}
    /\ personas \in {SubSeq(PersonaNames, 1, n) : n \in 0..MaxPersonas}
    /\ run = NoRun
    /\ deliberation = NotRunning
    /\ requests = << >>
    /\ debate_summary = NoSummary

DebateNext == RequestRun \/ StartRun \/ InitialTurn \/ CritiqueTurn \/ SaveRun

SpecDebate == DebateInit /\ [][DebateNext]_vars

(* Positions of a persona and of a question in the session's lists, from 0 *)
PersonaIndex(persona) ==
    (CHOOSE i \in 1..Len(personas) : personas[i] = persona) - 1

QuestionIndex(question) ==
    (CHOOSE i \in 1..Len(questions) : questions[i] = question) - 1

(* (question, round, agent) of a turn and of an opinion request *)
TurnKey(turn) == <<turn.question_index, turn.round, turn.agent_index>>

RequestKey(request) ==
    <<QuestionIndex(request.question), request.round_number,
      PersonaIndex(request.persona)>>

KeyBefore(a, b) ==
    \/ a[1] < b[1]
    \/ a[1] = b[1] /\ a[2] < b[2]
    \/ a[1] = b[1] /\ a[2] = b[2] /\ a[3] < b[3]

SortedTranscript(transcript) ==
    \A k \in 1..(Len(transcript) - 1) :
        KeyBefore(TurnKey(transcript[k]), TurnKey(transcript[k + 1]))

IsOpinionRequest(request) == request.call = "opinion"

OpinionRequests == SelectSeq(requests, IsOpinionRequest)

Running == deliberation.pc \in {"round1", "round2", "save"}

(* C17: the completion calls and the turns of a debate run are strictly    *)
(* ordered by (question, round, agent): the k-th opinion call is the call  *)
(* of the k-th turn and is issued only when the k-1 turns before it are in *)
(* the transcript, a summary call directly follows the opinion call whose  *)
(* text it summarises, and the transcript, while it is built and as it is  *)
(* saved, is sorted by (question_index, round, agent_index).               *)
C17_StrictlyOrdered ==
    /\ SortedTranscript(deliberation.transcript)
    /\ SortedTranscript(run.transcript)
    /\ \A i, j \in 1..Len(OpinionRequests) :
          i < j => KeyBefore(RequestKey(OpinionRequests[i]),
                             RequestKey(OpinionRequests[j]))
    /\ \A i \in 1..Len(requests) :
          requests[i].call = "summary" =>
              /\ i > 1
              /\ requests[i - 1].call = "opinion"
              /\ requests[i - 1].persona = requests[i].persona
              /\ requests[i].opinion = i - 1
    /\ Running =>
          /\ Len(OpinionRequests) = Len(deliberation.transcript)
          /\ \A k \in 1..Len(deliberation.transcript) :
                TurnKey(deliberation.transcript[k])
                    = RequestKey(OpinionRequests[k])

(* A run over two questions and three personas that was saved *)
C17_Witness ==
    /\ Len(questions) = 2
    /\ Len(personas) = 3
    /\ deliberation.pc = "returned"
    /\ run.completed
    /\ Len(run.transcript) = 12
    /\ Len(OpinionRequests) = 12

(* An opinion request of round 2, and the round 1 turn of a persona on the *)
(* question of a request                                                   *)
IsCritiqueRequest(request) ==
    request.call = "opinion" /\ request.round_number = 2

InitialTurnOf(question, persona) ==
    CHOOSE k \in 1..Len(deliberation.transcript) :
        /\ deliberation.transcript[k].question = question
        /\ deliberation.transcript[k].round = 1
        /\ deliberation.transcript[k].persona = persona

HasInitialTurn(question, persona) ==
    \E k \in 1..Len(deliberation.transcript) :
        /\ deliberation.transcript[k].question = question
        /\ deliberation.transcript[k].round = 1
        /\ deliberation.transcript[k].persona = persona

(* The lines of a request carry the summaries recorded in round 1 *)
CarriesInitialOpinions(request) ==
    \A k \in 1..Len(request.opinions) :
        /\ HasInitialTurn(request.question, request.opinions[k].persona)
        /\ deliberation.transcript[InitialTurnOf(request.question, request.opinions[k].persona)].terse_summary = request.opinions[k].summary

LinePersonas(request) ==
    {request.opinions[k].persona : k \in 1..Len(request.opinions)}

AllPersonas == {personas[i] : i \in 1..Len(personas)}

(* C18: with n >= 2 personas the saved transcript holds, for each question *)
(* in turn, the n round 1 turns in agent order followed by the n round 2   *)
(* turns in agent order; and every round 2 request carries n-1 lines, one  *)
(* for each other persona and none for the speaker, each holding the       *)
(* summary recorded for that persona's round 1 turn on the same question.  *)
C18_CritiqueSeesTheOthers ==
    num_agents >= 2 =>
        /\ (deliberation.pc = "returned") =>
              /\ run.completed
              /\ Len(run.transcript) = 2 * num_agents * Len(questions)
              /\ \A q \in 0..(Len(questions) - 1), a \in 0..(num_agents - 1) :
                    /\ TurnKey(run.transcript[q * 2 * num_agents + a + 1])
                           = <<q, 1, a>>
                    /\ TurnKey(run.transcript[q * 2 * num_agents + num_agents + a + 1])
                           = <<q, 2, a>>
        /\ Running =>
              \A i \in 1..Len(requests) :
                  IsCritiqueRequest(requests[i]) =>
                      /\ Len(requests[i].opinions) = num_agents - 1
                      /\ LinePersonas(requests[i])
                             = AllPersonas \ {requests[i].persona}
                      /\ CarriesInitialOpinions(requests[i])

(* Three personas, one question: the run is saved with 3 + 3 turns and the *)
(* round 2 request of A carried the lines of B and C                       *)
C18_Witness ==
    /\ personas = <<"A", "B", "C">>
    /\ questions = <<"dq1">>
    /\ deliberation.pc = "returned"
    /\ Len(run.transcript) = 6
    /\ \E i \in 1..Len(requests) :
          /\ IsCritiqueRequest(requests[i])
          /\ requests[i].persona = "A"
          /\ requests[i].opinions[1].persona = "B"
          /\ requests[i].opinions[2].persona = "C"

(* C19: a run with exactly one persona records round 1 turns only and      *)
(* issues no round 2 request.                                               *)
C19_SinglePersonaNoCritique ==
    num_agents = 1 =>
        /\ \A k \in 1..Len(deliberation.transcript) :
              deliberation.transcript[k].round = 1
        /\ \A k \in 1..Len(run.transcript) : run.transcript[k].round = 1
        /\ \A i \in 1..Len(requests) : ~IsCritiqueRequest(requests[i])

IsInitialRequest(request) ==
    request.call = "opinion" /\ request.round_number = 1

(* C20 as stated: a round 1 request carries nothing of any other persona. *)
C20_InitialRequestPersonaOnly ==
    \A i \in 1..Len(requests) :
        IsInitialRequest(requests[i]) => requests[i].opinions = << >>

(* C20: the round 1 request of the persona at index a carries exactly a    *)
(* lines, those of the personas at indices 0..a-1 in that order, each      *)
(* holding the summary recorded for that persona's round 1 turn on the     *)
(* same question; it carries nothing of the speaker, of a later persona or *)
(* of another question, and a summary request carries no line at all.      *)
C20_InitialRequestHearsEarlier ==
    /\ \A i \in 1..Len(requests) :
          requests[i].call = "summary" => requests[i].opinions = << >>
    /\ \A i \in 1..Len(requests) :
          IsInitialRequest(requests[i]) =>
              /\ Len(requests[i].opinions) = PersonaIndex(requests[i].persona)
              /\ \A k \in 1..Len(requests[i].opinions) :
                    requests[i].opinions[k].persona = personas[k]
              /\ Running => CarriesInitialOpinions(requests[i])

(* The third persona's round 1 request carried the lines of the first two *)
C20_Witness ==
    \E i \in 1..Len(requests) :
        /\ IsInitialRequest(requests[i])
        /\ requests[i].persona = "C"
        /\ Len(requests[i].opinions) = 2
        /\ requests[i].opinions[1].summary # EmptyText
        /\ Running

(* C21: when a completion call fails during a run, the run is ended with   *)
(* completed set: the persisted run keeps the turns produced so far,       *)
(* followed by one error turn, and does not stay incomplete.               *)
C21_FailureCompletesRun ==
    deliberation.pc = "raised" =>
        /\ run.completed
        /\ run.transcript # << >>

(* C22: the start request of the dashboard returns a handle of a run that  *)
(* exists (completed or still running in the background); in blocking mode *)
(* the call returns only with completed set.                               *)
C22_StartReturnsRunHandle ==
    /\ deliberation.pc # "idle" => run.created
    /\ deliberation.pc = "returned" => run.completed

(* --------------------- overlapping send requests ----------------------- *)
(* Two POST action=send requests of one participant handled by different   *)
(* workers.  Each loads the row (views.py 365), later runs                 *)
(* process_user_message on the object it loaded and saves it               *)
(* (conversation_service.py 390); nothing in the view or the service       *)
(* locks the row.  A request is two steps, the load and the rest.          *)
MaxEarlier == 1

Clients == {"a", "b"}

Other(p) == IF p = "a" THEN "b" ELSE "a"

MessageOf(p) == IF p = "a" THEN "ma" ELSE "mb"

NoteOf(p) == IF p = "a" THEN "note a" ELSE "note b"

(* What the services answer to the turn of a request: the completion call  *)
(* fails, or it answers with or without a note                             *)
ClientGateways(note) ==
    [ rag_ok : {TRUE}, completion : {"error"}, new_information : {FALSE},
      temp_md_entry : {""}, assistant_reply : {""},
      final_ok : {TRUE}, final_content : {"doc"} ]
    \cup
    [ rag_ok : {TRUE}, completion : {"ok"}, new_information : BOOLEAN,
      temp_md_entry : {"", note}, assistant_reply : ReplyOutputs,
      final_ok : {TRUE}, final_content : {"doc"} ]

(* views.py 446-452: the send branch reaches process_user_message *)
send_reaches_service(c0) ==
    /\ view_question_type(c0) = "discussion"
    /\ topic # ""
    /\ c0.active

(* A whole send request handled before the two overlapping ones arrive *)
EarlierSend ==
    /\ \A p \in Clients : inflight[p].pc = "idle"
    /\ conversation.message_count < MaxEarlier
    /\ send_reaches_service(deactivate_if_complete(conversation))
    /\ \E gw \in ClientGateways("note") :
         conversation' = send(deactivate_if_complete(conversation), "m", gw).db
    /\ UNCHANGED <<session_vars, last, budget_vars, debate_vars, inflight>>

(* views.py 365-374: get_or_create, and the check that closes a            *)
(* conversation that is past its plan                                      *)
LoadRequest(p) ==
    /\ inflight[p].pc = "idle"
    /\ conversation' = deactivate_if_complete(conversation)
    /\ inflight' = [inflight EXCEPT ![p] =
          [@ EXCEPT !.pc = "loaded",
                    !.loaded = deactivate_if_complete(conversation),
                    !.overlapping = inflight[Other(p)].pc # "done"]]
    /\ UNCHANGED <<session_vars, last, budget_vars, debate_vars>>

(* views.py 446-492: the send branch on the object loaded before *)
FinishRequest(p) ==
    /\ inflight[p].pc = "loaded"
    /\ LET mem == inflight[p].loaded
           order == IF inflight[Other(p)].pc = "done" THEN 2 ELSE 1
       IN IF ~send_reaches_service(mem)
          THEN /\ inflight' = [inflight EXCEPT ![p] =
                     [@ EXCEPT !.pc = "done", !.order = order]]
               /\ UNCHANGED conversation
          ELSE \E gw \in ClientGateways(NoteOf(p)) :
                 LET r == process_user_message(conversation, mem, MessageOf(p), gw)
                 IN /\ conversation' = r.db
                    /\ inflight' = [inflight EXCEPT ![p] =
                          [@ EXCEPT !.pc = "done", !.order = order,
                                    !.gateway = gw, !.saved = ~r.raised]]
    /\ UNCHANGED <<session_vars, last, budget_vars, debate_vars>>

(* views.py 387-398 with stop_conversation: a whole POST action=stop that  *)
(* is handled while a send request holds the row it loaded.  Each request  *)
(* in flight notes that the stop completed and what document it returned.  *)
StopRequest ==
    /\ \E p \in Clients : inflight[p].pc = "loaded"
    /\ \A p \in Clients : ~inflight[p].stopped
    /\ \E gw \in FinalOnlyGateways :
         \E r \in {stop_conversation(deactivate_if_complete(conversation), deactivate_if_complete(conversation), gw)} :
            /\ conversation' = r.db
            /\ inflight' =
                  [p \in Clients |->
                      IF inflight[p].pc = "loaded" /\ ~r.raised
                      THEN [inflight[p] EXCEPT !.stopped = TRUE,
                                               !.stop_views = r.value]
                      ELSE inflight[p]]
    /\ UNCHANGED <<session_vars, last, budget_vars, debate_vars>>

Load == \E p \in Clients : LoadRequest(p)

Finish == \E p \in Clients : FinishRequest(p)

OverlapInit ==
    /\ NoBudget
    /\ NoDebate
    /\ NoOverlap
    /\ objective_questions \in Plans(MaxPlan)
    /\ question_followup_limit \in 0..MaxLimit
    /\ no_new_information_limit \in 0..MaxLimit
    /\ topic = "topic"
    /\ discussion_sessions = ActiveSessionOnly
    /\ conversation = NewConversation
    /\ last = Report("create", "ok", 0, NoTurn, NoSubmission)

OverlapNext == EarlierSend \/ Load \/ Finish \/ StopRequest

SpecOverlap == OverlapInit /\ [][OverlapNext]_vars

(* Both requests are over and each had loaded the row before the other     *)
(* saved                                                                   *)
BothOverlapped ==
    \A p \in Clients : inflight[p].pc = "done" /\ inflight[p].overlapping

Writers == {p \in Clients : inflight[p].saved}

LastWriter ==
    CHOOSE p \in Writers : \A q \in Writers : inflight[q].order <= inflight[p].order

(* The text occurs as a message of the row's history or of a stored        *)
(* discussion log                                                          *)
Mentions(row, text) ==
    \/ \E k \in 1..Len(row.history) : row.history[k].content = Text(text)
    \/ \E i \in 1..Len(row.responses) :
          \E k \in 1..Len(row.responses[i].discussion_history) :
              row.responses[i].discussion_history[k].content = Text(text)

HasNote(row, note) ==
    \E k \in 1..Len(row.scratchpad) : row.scratchpad[k] = note

(* C23: after two overlapping turns the stored row is the one the last     *)
(* saving call wrote from the row it had loaded: one more message than     *)
(* that row, its scratchpad with that call's note alone added, that call's *)
(* message in the logs, and nothing of the other call (neither its         *)
(* message nor its note, nor a counter step).                              *)
C23_LastWriterWins ==
    (BothOverlapped /\ Writers # {}) =>
        LET w == LastWriter
            from == inflight[w].loaded
        IN /\ conversation.message_count = from.message_count + 1
           /\ conversation.scratchpad
                  = from.scratchpad \o Text(inflight[w].gateway.temp_md_entry)
           /\ Mentions(conversation, MessageOf(w))
           /\ ~Mentions(conversation, MessageOf(Other(w)))
           /\ ~HasNote(conversation, NoteOf(Other(w)))
           /\ conversation.question_followups \in {0, from.question_followups + 1}
           /\ conversation.current_question_index
                  \in {from.current_question_index, from.current_question_index + 1}

(* Both calls saved a turn with a note; one note is in the row *)
C23_Witness ==
    /\ BothOverlapped
    /\ Writers = Clients
    /\ \A p \in Clients : inflight[p].gateway.temp_md_entry # ""
    /\ conversation.message_count = 2
    /\ Len(conversation.scratchpad) = 2
    /\ HasNote(conversation, NoteOf(LastWriter))

(* ------------------------------ C24 ------------------------------------ *)
TurnTriggered == last.turn.no_new_trigger \/ last.turn.reached_limit

(* The reply ends with the sentence that announces the next question *)
EndsWithTransition(reply) ==
    /\ Len(reply) >= 2
    /\ reply[Len(reply) - 1] = TransitionNote("")[1]

EndsWithClosing(reply) ==
    /\ Len(reply) >= 1
    /\ reply[Len(reply)] = ClosingNote[1]

(* C24: a saved turn in which a trigger fired returns a reply that ends    *)
(* with a courtesy sentence: the transition sentence when the turn moved   *)
(* to another question of either kind, the closing sentence when the turn  *)
(* closed the conversation.                                                *)
C24_CourtesySentenceAppended ==
    (TurnOk /\ TurnTriggered) =>
        /\ IndexChanged /\ conversation.active
              => EndsWithTransition(last.turn.assistant_reply)
        /\ ~conversation.active
              => EndsWithClosing(last.turn.assistant_reply)
        /\ IndexChanged \/ ~conversation.active

(* ------------------------------ C25 ------------------------------------ *)
(* Position in the stored responses of the question the turn was on *)
TurnResponseAt ==
    FirstResponseAt(conversation.responses, Before.current_question_index, 1)

TurnLog == conversation.responses[TurnResponseAt].discussion_history

(* The responses stored for other questions are as they were *)
OtherResponsesKept ==
    /\ Len(conversation.responses) >= Len(Before.responses)
    /\ \A j \in 1..Len(Before.responses) :
          Before.responses[j].question_index # Before.current_question_index
              => conversation.responses[j] = Before.responses[j]
    /\ \A j \in 1..Len(conversation.responses) :
          j > Len(Before.responses)
              => /\ j = TurnResponseAt
                 /\ j = Len(Before.responses) + 1

(* C25: when a saved turn on question i fires a trigger, the log stored    *)
(* for question i is the history of before the turn followed by the        *)
(* utterance and the reply of this turn, two entries for each reply given  *)
(* on question i, although the turn changed the index or cleared the       *)
(* history; the responses of every other question are unchanged.           *)
C25_SnapshotBeforeTransition ==
    (TurnOk /\ TurnTriggered) =>
        /\ TurnResponseAt > 0
        /\ TurnLog = Before.history
                \o << [role |-> "user", content |-> Text("m")],
                      [role |-> "assistant",
                       content |-> last.turn.assistant_reply] >>
        /\ Len(TurnLog) = 2 * (Before.question_followups + 1)
        /\ OtherResponsesKept

(* A second turn on the question closes it, with a grading response        *)
(* already stored                                                          *)
C25_Witness ==
    /\ TurnOk /\ TurnTriggered
    /\ IndexChanged
    /\ Len(Before.history) >= 2
    /\ conversation.history = << >> \/ ~conversation.active
    /\ \E j \in 1..Len(Before.responses) :
          Before.responses[j].question_index # Before.current_question_index

(* ------------------------------ C26 ------------------------------------ *)
Dropped == Len(messages) - Len(sent)

(* What the sent list keeps of the part before the final two is its first  *)
(* h entries and its newest ones                                           *)
KeepsNewest(h) ==
    LET copy == AllButLastTwo(messages)
        kept == AllButLastTwo(sent)
    IN /\ h <= Len(kept)
       /\ kept = SubSeq(copy, 1, h)
                    \o SubSeq(copy, Len(copy) - (Len(kept) - h) + 1, Len(copy))

(* C26: a list within the budget is sent as built; from a list over the    *)
(* budget the guard drops an even number of entries, keeps the final two,  *)
(* and what it drops is older than every entry it keeps after the prompts  *)
(* that are always there.                                                  *)
C26_DropsOldestInPairs ==
    sent # << >> =>
        /\ total_tokens(messages) <= MAX_TOKENS_PER_REQUEST => sent = messages
        /\ total_tokens(messages) > MAX_TOKENS_PER_REQUEST =>
              /\ Dropped >= 0 /\ Dropped % 2 = 0
              /\ LastTwo(sent) = LastTwo(messages)
              /\ \E h \in 0..FixedPrompts : KeepsNewest(h)

(* ------------------------------ C27 ------------------------------------ *)
IsPrefix(s, t) == Len(s) <= Len(t) /\ SubSeq(t, 1, Len(s)) = s

(* C27: whatever the last request was (a turn, a grading submission, a     *)
(* manual stop, a visit), the scratchpad of before the request is a prefix *)
(* of the scratchpad after it, and a turn adds at most its one note.       *)
C27_ScratchpadAppendOnly ==
    /\ IsPrefix(Before.scratchpad, conversation.scratchpad)
    /\ Len(conversation.scratchpad) <= Len(Before.scratchpad) + 1
    /\ Len(conversation.scratchpad) > Len(Before.scratchpad) => TurnOk

(* A turn that leaves its question adds a note to earlier notes *)
C27_Witness ==
    /\ TurnOk
    /\ IndexChanged
    /\ Before.scratchpad # << >>
    /\ Len(conversation.scratchpad) = Len(Before.scratchpad) + 1

(* A manual stop and a grading submission with notes in the scratchpad *)
C27_WitnessStop ==
    /\ last.op \in {"stop", "grading"}
    /\ last.status = "ok"
    /\ conversation.scratchpad # << >>

(* ------------------------------ C28 ------------------------------------ *)
(* The text was returned by a summary call on an opinion of round 1 *)
SummaryOfRoundOne(text, question, persona) ==
    /\ text \in 2..Len(requests)
    /\ requests[text].call = "summary"
    /\ requests[text].persona = persona
    /\ IsInitialRequest(requests[text - 1])
    /\ requests[text - 1].question = question
    /\ requests[text - 1].persona = persona

(* C28: the k-th line of the round 2 request of the persona at index i is  *)
(* the line of the persona at index (i + k) mod n, for k = 1..n-1, and the *)
(* summary it holds is the one recorded for that persona's round 1 turn on *)
(* the question: a text returned for a round 1 opinion, never one of       *)
(* round 2.                                                                *)
C28_RotatedRoundOneOpinions ==
    \A i \in 1..Len(requests) :
        IsCritiqueRequest(requests[i]) =>
            LET request == requests[i]
                agent == PersonaIndex(request.persona)
            IN /\ Len(request.opinions) = num_agents - 1
               /\ \A k \in 1..Len(request.opinions) :
                     LET line == request.opinions[k]
                     IN /\ line.persona = personas[((agent + k) % num_agents) + 1]
                        /\ line.summary # EmptyText =>
                              SummaryOfRoundOne(line.summary, request.question, line.persona)
                        /\ Running =>
                              /\ HasInitialTurn(request.question, line.persona)
                              /\ deliberation.transcript[InitialTurnOf(request.question, line.persona)].terse_summary = line.summary

(* [A, B, C]: the round 2 request of B carries the lines of C then A, that *)
(* of C the lines of A then B, after A answered in round 2                 *)
C28_Witness ==
    /\ personas = <<"A", "B", "C">>
    /\ \E i, j \in 1..Len(requests) :
          /\ i < j
          /\ IsCritiqueRequest(requests[i])
          /\ requests[i].persona = "B"
          /\ requests[i].opinions[1].persona = "C"
          /\ requests[i].opinions[2].persona = "A"
          /\ requests[i].opinions[2].summary # EmptyText
          /\ IsCritiqueRequest(requests[j])
          /\ requests[j].persona = "C"
          /\ requests[j].opinions[1].persona = "A"
          /\ requests[j].opinions[2].persona = "B"
          /\ requests[j].opinions[2].summary # EmptyText

(* ------------------------------ C29 ------------------------------------ *)
(* C29: of a turn that closes the conversation, the end reason is          *)
(* "no_new_limit" whenever the streak reached its limit, also when the     *)
(* follow-up count reached its limit in the same turn, and it is           *)
(* "followup_limit" exactly when the follow-up trigger fired and the       *)
(* streak trigger did not.                                                 *)
C29_StreakReasonWins ==
    (TurnOk /\ ~conversation.active) =>
        /\ NoNewTrigger => last.turn.end_reason = "no_new_limit"
        /\ last.turn.end_reason = "followup_limit"
              <=> (LimitTrigger /\ ~NoNewTrigger)

(* Both limits are reached by the same turn on the last question *)
C29_Witness ==
    /\ TurnOk
    /\ ~conversation.active
    /\ NoNewTrigger
    /\ LimitTrigger
    /\ TurnFollowUps = 2
    /\ last.turn.end_reason = "no_new_limit"

(* ------------------------------ C30 ------------------------------------ *)
(* A participant who keeps going: the session has a topic, a plan and      *)
(* limits of at least 1 (the streak limit at either end of its range);    *)
(* whenever a turn can be processed and saved one eventually is, and       *)
(* whenever a grading submission can be accepted one eventually is.        *)
(* Failing service calls, rejected forms, visits and a manual stop may     *)
(* happen in between.                                                      *)
LiveInit ==
    /\ Init
    /\ topic # ""
    /\ objective_questions # << >>
    /\ question_followup_limit >= 1
    /\ no_new_information_limit \in {1, MaxLimit}

(* A turn can be processed: the view hands the message to the service *)
TurnPossible == send_reaches_service(deactivate_if_complete(conversation))

(* A step that reports a message accepted, processed and saved: a step of *)
(* Send, the one action that reports a send                               *)
TurnSaved == last'.op = "send" /\ last'.status = "ok"

(* A step of SubmitGrading: a valid form that is recorded *)
AcceptedGrading ==
    /\ view_question_type(deactivate_if_complete(conversation)) = "grading"
    /\ \E gw \in {g \in FinalOnlyGateways : g.final_ok /\ g.final_content = "doc"} :
         \E r \in {submit_grading(deactivate_if_complete(conversation), "7", "because", gw)} :
            /\ conversation' = r.db
            /\ last' = Report("submit_grading", r.status, r.calls, NoTurn,
                             [score |-> "7", reason |-> "because"])
    /\ UNCHANGED <<session_vars, budget_vars, debate_vars, overlap_vars>>

(* The condition on turns is WF_vars(TurnSaved) written out, TurnPossible  *)
(* being the condition under which a TurnSaved step exists.                *)
SpecLive ==
    /\ LiveInit
    /\ [][Next]_vars
    /\ ([]<>(~TurnPossible) \/ []<><<TurnSaved>>_vars)
    /\ WF_vars(AcceptedGrading)

DiscussionCount ==
    Cardinality({i \in 1..total_questions :
                    get_all_questions[i].type = "discussion"})

TurnsWithinPlan ==
    conversation.message_count <= DiscussionCount * followup_limit

(* C30: with a plan of d discussion questions and limits of at least 1 no  *)
(* more than d * followup_limit turns are ever processed and saved,        *)
(* whatever the novelty flags; and a participant who keeps sending and     *)
(* submits the grading questions reaches a conversation that is not        *)
(* active.                                                                 *)
C30_BoundedTurnsThenClosed ==
    /\ []TurnsWithinPlan
    /\ <>(~conversation.active)

(* Two discussion questions with two replies each, closed by the fourth    *)
(* turn                                                                    *)
C30_Witness ==
    /\ TurnOk
    /\ ~conversation.active
    /\ DiscussionCount = 2
    /\ followup_limit = 2
    /\ conversation.message_count = 4

(* ------------------------------ C31 ------------------------------------ *)
AllDone == \A p \in Clients : inflight[p].pc = "done"

(* The request was in flight when a stop completed, saved its turn after   *)
(* it, and nothing was saved after the request                             *)
SavedOverStop(p) ==
    /\ AllDone
    /\ inflight[p].stopped
    /\ inflight[p].saved
    /\ p = LastWriter

(* C31 as stated: a stop that completes while a turn is in flight is not   *)
(* undone: after both the conversation is not active and holds the         *)
(* document the stop returned.                                             *)
C31_StopNotUndone ==
    \A p \in Clients :
        SavedOverStop(p) =>
            /\ ~conversation.active
            /\ conversation.views_markdown = inflight[p].stop_views

(* C31: the turn's save is the last write and replaces what the stop       *)
(* wrote: after both the row is the turn's, one message more than the row  *)
(* the turn had loaded; unless the turn itself closed the conversation it  *)
(* is active again with the document the turn had loaded, and it is not    *)
(* active when the turn closed it.                                         *)
C31_TurnSaveReplacesStop ==
    \A p \in Clients :
        SavedOverStop(p) =>
            LET from == inflight[p].loaded
            IN /\ conversation.message_count = from.message_count + 1
               /\ conversation.current_question_index < total_questions
                     => /\ conversation.active
                        /\ conversation.views_markdown = from.views_markdown
               /\ conversation.current_question_index >= total_questions
                     => ~conversation.active

(* A stop returned a document while a turn was in flight; after the turn   *)
(* the conversation is active and has no document                          *)
C31_Witness ==
    \E p \in Clients :
        /\ SavedOverStop(p)
        /\ inflight[p].stop_views = "doc"
        /\ conversation.active
        /\ conversation.views_markdown = ""

(* ------------------------------ C32 ------------------------------------ *)
StopRequested == last.op = "stop"

(* Everything of the row but active and views_markdown *)
RestOfRow(c) ==
    [c EXCEPT !.active = TRUE, !.views_markdown = ""]

(* C32: a manual stop, also one whose finalization fails, leaves the       *)
(* question index, both counters, the history, the scratchpad, the         *)
(* responses and the message count as they were; and a stop of a           *)
(* conversation that has a non-empty final document succeeds without a     *)
(* gateway call and leaves that document stored.                           *)
C32_StopFrameAndIdempotence ==
    StopRequested =>
        /\ RestOfRow(conversation) = RestOfRow(Before)
        /\ Before.views_markdown # "" =>
              /\ last.status = "ok"
              /\ last.gateway_calls = 0
              /\ conversation.views_markdown = Before.views_markdown
              /\ ~conversation.active

(* A second stop of a conversation with turns, notes and a document *)
C32_Witness ==
    /\ StopRequested
    /\ last.status = "ok"
    /\ Before.views_markdown = "doc"
    /\ ~Before.active
    /\ Before.history # << >>
    /\ Before.scratchpad # << >>
    /\ Before.responses # << >>
    /\ conversation = Before

(* A first stop in the middle of a question *)
C32_WitnessFirstStop ==
    /\ StopRequested
    /\ Before.active
    /\ Before.question_followups = 1
    /\ Before.consecutive_no_new = 1
    /\ conversation.views_markdown = "doc"

(* ------------------------------ C33 ------------------------------------ *)
(* Plans long enough to have a grading question between two discussion     *)
(* questions; with both limits at 1 every saved turn leaves its question   *)
MaxLongPlan == 3

LongPlanInit ==
    /\ NoBudget
    /\ NoDebate
    /\ NoOverlap
    /\ objective_questions \in Plans(MaxLongPlan)
    /\ question_followup_limit = 1
    /\ no_new_information_limit = 1
    /\ topic = "topic"
    /\ discussion_sessions = ActiveSessionOnly
    /\ conversation = NewConversation
    /\ last = Report("create", "ok", 0, NoTurn, NoSubmission)

SpecLongPlan == LongPlanInit /\ [][Next]_vars

(* C33: when a saved turn moves to another question and its reply ends     *)
(* with the transition sentence, the question the sentence names is the    *)
(* question at the new index.                                              *)
C33_TransitionNamesNextQuestion ==
    (TurnOk /\ IndexChanged /\ conversation.active
        /\ EndsWithTransition(last.turn.assistant_reply)) =>
        last.turn.assistant_reply[Len(last.turn.assistant_reply)]
            = get_question_at(conversation.current_question_index).text

(* ------------------------------ C34 ------------------------------------ *)
IncompleteRunIsEmpty == ~run.completed => run.transcript = << >>

(* A step that changes the stored transcript is the one save that also     *)
(* sets completed, and it stores the transcript the run built              *)
TranscriptSavedWithCompleted ==
    run'.transcript # run.transcript =>
        /\ ~run.completed
        /\ run'.completed
        /\ run'.transcript = deliberation.transcript

(* C34: a stored run that is not completed has an empty transcript, the    *)
(* stored transcript changes only in the step that sets completed, and a   *)
(* completed run is not written again.                                     *)
C34_TranscriptOnlyWithCompletion ==
    /\ []IncompleteRunIsEmpty
    /\ [][TranscriptSavedWithCompleted]_vars
    /\ [][run.completed => run' = run]_vars

(* A run of two personas that is stored incomplete and empty while its     *)
(* fourth turn is due                                                      *)
C34_Witness ==
    /\ run.created
    /\ ~run.completed
    /\ run.transcript = << >>
    /\ Len(deliberation.transcript) = 3
    /\ deliberation.pc = "round2"

(* ------------------------------ C35 ------------------------------------ *)
EmptySession == questions = << >> \/ personas = << >>

(* C35: in a session without questions or without personas no completion   *)
(* call is ever issued, run_deliberation never enters a round, and when it *)
(* has returned the stored run is completed with an empty transcript.      *)
C35_EmptySessionRunsNothing ==
    EmptySession =>
        /\ requests = << >>
        /\ deliberation.pc \in {"idle", "rejected", "returned"}
        /\ deliberation.pc = "returned" =>
              /\ run.created
              /\ run.completed
              /\ run.transcript = << >>

(* Personas but no question: the run has returned *)
C35_Witness ==
    /\ questions = << >>
    /\ Len(personas) = 2
    /\ deliberation.pc = "returned"
    /\ run.completed

(* Questions but no persona: the run has returned *)
C35_WitnessNoPersona ==
    /\ Len(questions) = 2
    /\ personas = << >>
    /\ deliberation.pc = "returned"
    /\ run.completed

(***************************************************************************)
(* The summary of a debate run: POST action=summarize of the results page  *)
(* (views.py ai_deliberation_results) and                                  *)
(* AIDeliberationService.generate_summary.                                 *)
(***************************************************************************)

MaxSummarize == 2

(* generate_summary returns None without a completion call *)
None == 0 - 1

(* What the completion call of generate_summary answers *)
SummaryGateways == {"text", "empty", "error"}

(* lines 294-318: question, round, persona and opinion of every turn *)
_format_transcript_for_summary(transcript) ==
    [k \in 1..Len(transcript) |->
        [ question |-> transcript[k].question,
          round    |-> transcript[k].round,
          persona  |-> transcript[k].persona,
          opinion  |-> transcript[k].opinion ]]

DebateSummaryRequest(transcript) ==
    [ call |-> "debate_summary", persona |-> "", question |-> "",
      round_number |-> 0,
      opinions |-> _format_transcript_for_summary(transcript),
      opinion |-> EmptyText ]

(* Variant: an empty transcript is summarised as well *)
generate_summary_OfEmptyTranscript(r, gw, serial) ==
    [ raised   |-> gw = "error",
      value    |-> IF gw = "text" THEN serial + 1 ELSE EmptyText,
      requests |-> << DebateSummaryRequest(r.transcript) >> ]

(* serial: the number of requests issued before this call *)
generate_summary(r, gw, serial) ==
    IF r.transcript = << >>
    THEN [raised |-> FALSE, value |-> None, requests |-> << >>]
    ELSE [ raised   |-> gw = "error",
           value    |-> IF gw = "text" THEN serial + 1 ELSE EmptyText,
           requests |-> << DebateSummaryRequest(r.transcript) >> ]

(* views.py 1015-1043: the summarize branch, r the run row it loaded and s *)
(* the stored summary with the flash message of the last request           *)
summarize(r, s, gw, serial) ==
    IF ~r.completed
    THEN [summary |-> [s EXCEPT !.message = "warning"], requests |-> << >>]
    ELSE LET g == generate_summary(r, gw, serial)
         IN IF g.raised
            THEN [ summary  |-> [s EXCEPT !.message = "error"],
                   requests |-> g.requests ]
            ELSE IF g.value # None /\ g.value # EmptyText
            THEN [ summary  |-> [s EXCEPT !.created = TRUE,
                                          !.summary_markdown = g.value,
                                          !.message = "success"],
                   requests |-> g.requests ]
            ELSE [ summary  |-> [s EXCEPT !.message = ""],
                   requests |-> g.requests ]

(* One summarize request for the run; at most MaxSummarize are made *)
Summarize ==
    /\ run.created
    /\ debate_summary.asked < MaxSummarize
    /\ \E gw \in SummaryGateways :
         \E r \in {summarize(run, debate_summary, gw, Len(requests))} :
            /\ requests' = requests \o r.requests
            /\ debate_summary' = [r.summary EXCEPT !.asked = @ + 1]
    /\ UNCHANGED <<conversation_vars, overlap_vars, budget_vars, questions, personas, run, deliberation>>

(* A session of at most one question and two personas *)
SummaryInit ==
    /\ NoConversation
    /\ NoBudget
    /\ NoOverlap
    /\ questions \in {SubSeq(QuestionNames, 1, n) : n \in 0..1}
    /\ personas \in {SubSeq(PersonaNames, 1, n) : n \in 0..2}
    /\ run = NoRun
    /\ deliberation = NotRunning
    /\ requests = << >>
    /\ debate_summary = NoSummary

SummaryNext == DebateNext \/ Summarize

SpecSummary == SummaryInit /\ [][SummaryNext]_vars

(* The stored AIDebateSummary row *)
StoredSummary ==
    [ created |-> debate_summary.created,
      summary_markdown |-> debate_summary.summary_markdown ]

SummarizeStep == debate_summary'.asked = debate_summary.asked + 1

SummaryCalls ==
    {i \in 1..Len(requests) : requests[i].call = "debate_summary"}

(* a summarize request on a run that is not completed is turned away with  *)
(* the warning; it issues no call and leaves the stored summary            *)
RejectedWhileUnfinished ==
    SummarizeStep /\ ~run.completed
        => /\ debate_summary'.message = "warning"
           /\ requests' = requests
           /\ StoredSummary' = StoredSummary

(* a run without transcript gives no call and no summary *)
EmptyTranscriptGivesNothing ==
    SummarizeStep /\ run.transcript = << >>
        => /\ requests' = requests
           /\ StoredSummary' = StoredSummary
           /\ debate_summary'.message # "success"

(* a summary that is stored is the answer to a call made in that request   *)
(* with the transcript of the completed run                                *)
StoredFromFinishedRun ==
    SummarizeStep /\ StoredSummary' # StoredSummary
        => /\ run.completed
           /\ requests' = Append(requests, DebateSummaryRequest(run.transcript))
           /\ debate_summary'.created
           /\ debate_summary'.summary_markdown = Len(requests')

(* every summary call made so far carries the whole transcript of the run, *)
(* which is completed                                                      *)
SummaryCallsOfFinishedRun ==
    \A i \in SummaryCalls :
        /\ run.completed
        /\ run.transcript # << >>
        /\ requests[i] = DebateSummaryRequest(run.transcript)

(* C36: a debate summary is only generated from a finished run: a          *)
(* summarize request on a run with completed = false is rejected without a *)
(* completion call and without creating or changing the stored summary, a  *)
(* run with an empty transcript yields no summary and no call, and every   *)
(* call and every stored summary comes from the transcript of a completed  *)
(* run.                                                                    *)
C36_SummaryOnlyFromFinishedRun ==
    /\ []SummaryCallsOfFinishedRun
    /\ [](debate_summary.created => run.completed /\ debate_summary.summary_markdown \in SummaryCalls)
    /\ [][RejectedWhileUnfinished]_vars
    /\ [][EmptyTranscriptGivesNothing]_vars
    /\ [][StoredFromFinishedRun]_vars

(* a summarize request was turned away while the run was in its second     *)
(* round, after an earlier one was turned away too                         *)
C36_Witness ==
    /\ deliberation.pc = "round2"
    /\ ~run.completed
    /\ debate_summary.asked = MaxSummarize
    /\ debate_summary.message = "warning"
    /\ ~debate_summary.created

(* the completed run of an empty session was asked for a summary *)
C36_WitnessEmptyRun ==
    /\ run.completed
    /\ run.transcript = << >>
    /\ debate_summary.asked >= 1
    /\ debate_summary.message = ""

(* the summary of a completed run was stored *)
C36_WitnessStored ==
    /\ run.completed
    /\ debate_summary.created
    /\ debate_summary.message = "success"

(***************************************************************************)
(* The active DiscussionSession: DiscussionSession.get_active and          *)
(* activate (models.py), create_new_session_api and the session actions of *)
(* moderator_dashboard (views.py).  One operation at a time.               *)
(***************************************************************************)

MaxSessions == 3

SessionIdNames == <<"default", "s1", "s2", "s3", "s4">>

(* The s_id values a moderator types *)
SessionIds == {SessionIdNames[k] : k \in 1..MaxSessions}

(* models.py 37, 63: the two fields of a row that the operations look at *)
SessionRow(s_id, is_active) == [s_id |-> s_id, is_active |-> is_active]

(* DiscussionSessionQuerySet.active: the primary keys of the active rows *)
active(rows) == {pk \in 1..Len(rows) : rows[pk].is_active}

(* objects.filter(s_id=s_id).exists() *)
s_id_exists(rows, s_id) == \E pk \in 1..Len(rows) : rows[pk].s_id = s_id

(* objects.exclude(pk=pk).update(is_active=False); pk = 0 excludes nothing *)
deactivate_others(rows, pk) ==
    [k \in 1..Len(rows) |-> IF k = pk THEN rows[k] ELSE [rows[k] EXCEPT !.is_active = FALSE]]

(* Variant: the other sessions are left as they are *)
activate_KeepsOthers(rows, pk) ==
    IF ~rows[pk].is_active THEN [rows EXCEPT ![pk].is_active = TRUE] ELSE rows

(* models.py 75-81, self being the row pk as it was just loaded *)
activate(rows, pk) ==
    LET others == deactivate_others(rows, pk)
    IN IF ~rows[pk].is_active
       THEN [others EXCEPT ![pk].is_active = TRUE]
       ELSE others

(* models.py 146-159: an active session is returned; without one the       *)
(* default session is created, active by the field's default, and the      *)
(* unique s_id makes the create raise when a row named default exists      *)
get_active(rows) ==
    IF active(rows) # {}
    THEN [rows |-> rows, raised |-> FALSE, created |-> FALSE]
    ELSE IF s_id_exists(rows, "default")
    THEN [rows |-> rows, raised |-> TRUE, created |-> FALSE]
    ELSE [ rows    |-> Append(rows, SessionRow("default", TRUE)),
           raised  |-> FALSE, created |-> TRUE ]

(* views.py 48-69: a duplicate s_id is refused; otherwise every row is     *)
(* deactivated and the new one is created active.  The two statements are  *)
(* not in a transaction: a create that raises leaves the deactivation.     *)
create_new_session_api(rows, s_id, create_raises) ==
    IF s_id_exists(rows, s_id)
    THEN [rows |-> rows, raised |-> FALSE, created |-> FALSE]
    ELSE IF create_raises
    THEN [ rows |-> deactivate_others(rows, 0), raised |-> TRUE,
           created |-> FALSE ]
    ELSE [ rows |-> Append(deactivate_others(rows, 0), SessionRow(s_id, TRUE)),
           raised |-> FALSE, created |-> TRUE ]

(* views.py 187 and 364: a participant page asks for the active session *)
GetActive ==
    LET t == discussion_sessions
        r == get_active(t.rows)
    IN /\ r.created => Len(t.rows) < MaxSessions
       /\ \E pk \in (IF r.created THEN {Len(r.rows)} ELSE IF r.raised THEN {0} ELSE active(t.rows)) :
            discussion_sessions' = SessionTable(r.rows, "get_active", pk, r.raised, active(t.rows))
       /\ UNCHANGED <<objective_questions, question_followup_limit, no_new_information_limit, topic, conversation, last, budget_vars, debate_vars, overlap_vars>>

(* views.py 29-69 *)
CreateNewSessionApi ==
    LET t == discussion_sessions
    IN /\ Len(t.rows) < MaxSessions
       /\ \E s_id \in SessionIds, create_raises \in BOOLEAN :
            LET r == create_new_session_api(t.rows, s_id, create_raises)
            IN discussion_sessions' = SessionTable(r.rows, "create_api", IF r.created THEN Len(r.rows) ELSE 0, r.raised, active(t.rows))
       /\ UNCHANGED <<objective_questions, question_followup_limit, no_new_information_limit, topic, conversation, last, budget_vars, debate_vars, overlap_vars>>

(* views.py 249-259, action create_session, or save_session with nothing   *)
(* selected: the form refuses an s_id in use, a new row is saved inactive  *)
DashboardCreate ==
    LET t == discussion_sessions
    IN /\ Len(t.rows) < MaxSessions
       /\ \E s_id \in SessionIds :
            IF s_id_exists(t.rows, s_id)
            THEN discussion_sessions' = SessionTable(t.rows, "create_session", 0, FALSE, active(t.rows))
            ELSE discussion_sessions' = SessionTable(Append(t.rows, SessionRow(s_id, FALSE)), "create_session", Len(t.rows) + 1, FALSE, active(t.rows))
       /\ UNCHANGED <<objective_questions, question_followup_limit, no_new_information_limit, topic, conversation, last, budget_vars, debate_vars, overlap_vars>>

(* views.py 249-259, action save_session on the selected session: the form *)
(* has no is_active field, the row keeps the value it was loaded with      *)
DashboardSave ==
    LET t == discussion_sessions
    IN /\ \E pk \in 1..Len(t.rows), s_id \in SessionIds :
            IF \E k \in 1..Len(t.rows) : k # pk /\ t.rows[k].s_id = s_id
            THEN discussion_sessions' = SessionTable(t.rows, "save_session", 0, FALSE, active(t.rows))
            ELSE discussion_sessions' = SessionTable([t.rows EXCEPT ![pk].s_id = s_id], "save_session", pk, FALSE, active(t.rows))
       /\ UNCHANGED <<objective_questions, question_followup_limit, no_new_information_limit, topic, conversation, last, budget_vars, debate_vars, overlap_vars>>

(* views.py 260-266, action activate_session on the selected session *)
DashboardActivate ==
    LET t == discussion_sessions
    IN /\ \E pk \in 1..Len(t.rows) :
            discussion_sessions' = SessionTable(activate(t.rows, pk), "activate", pk, FALSE, active(t.rows))
       /\ UNCHANGED <<objective_questions, question_followup_limit, no_new_information_limit, topic, conversation, last, budget_vars, debate_vars, overlap_vars>>

(* An empty table *)
SessionsInit ==
    /\ NoBudget
    /\ NoDebate
    /\ NoOverlap
    /\ objective_questions = << >>
    /\ question_followup_limit = 1
    /\ no_new_information_limit = 1
    /\ topic = ""
    /\ conversation = NewConversation
    /\ last = Report("create", "ok", 0, NoTurn, NoSubmission)
    /\ discussion_sessions = SessionTable(<< >>, "", 0, FALSE, {})

SessionsNext ==
    GetActive \/ CreateNewSessionApi \/ DashboardCreate \/ DashboardSave \/ DashboardActivate

SpecSessions == SessionsInit /\ [][SessionsNext]_vars

ActiveNow == active(discussion_sessions.rows)

(* C37: after any sequence of session operations made one at a time        *)
(* (get_active with its default creation, activate, create_new_session_api *)
(* and the dashboard's create and save) at most one DiscussionSession has  *)
(* is_active = true, and right after activate() on a session that session  *)
(* is the one active session.                                              *)
C37_AtMostOneActiveSession ==
    /\ Cardinality(ActiveNow) <= 1
    /\ discussion_sessions.op = "activate" => ActiveNow = {discussion_sessions.pk}

(* an inactive session was activated while another one was the active one *)
C37_Witness ==
    /\ discussion_sessions.op = "activate"
    /\ discussion_sessions.active_before # {}
    /\ discussion_sessions.pk \notin discussion_sessions.active_before
    /\ Len(discussion_sessions.rows) = MaxSessions

(* get_active created the default session in a table of inactive sessions *)
C37_WitnessDefault ==
    /\ discussion_sessions.op = "get_active"
    /\ discussion_sessions.active_before = {}
    /\ Len(discussion_sessions.rows) >= 2
    /\ ActiveNow = {Len(discussion_sessions.rows)}

(* create_new_session_api replaced the active session *)
C37_WitnessApi ==
    /\ discussion_sessions.op = "create_api"
    /\ discussion_sessions.active_before # {}
    /\ ActiveNow = {Len(discussion_sessions.rows)}
    /\ ActiveNow # discussion_sessions.active_before
====
